---- MODULE Spec2Model ----
\* A model of the UI_RENDER component library: the delegated event engine
\* (bindEvents / unbindEvents / enableNearestHover / resolveItemData of
\* utils.js) over a small DOM, and the renderers that drive it.
EXTENDS Integers, Sequences, FiniteSets, TLC

\* ---------------------------------------------------------------- bounds
\* longest events list handed to one bindEvents call
MaxEvents == 2
\* number of bindEvents calls in one behaviour (each call allocates closures)
MaxBinds == 2
\* number of class changes the page makes under the root in one behaviour
MaxMut == 1

\* ---------------------------------------------------------------- JS values
\* null / no element
Null == -1
\* Number.NaN as an index
NaN == -2
\* an absent property (element._uiIndex never set)
Undefined == -3
\* data values handed to handlers: a record of the view data, null or undefined
Rec(g, k) == <<"rec", g, k>>
DataNull == <<"null", 0, 0>>
DataUndefined == <<"undefined", 0, 0>>
\* an absent dataset.index attribute
NoAttr == <<Undefined>>

\* RULES of utils.js
classPrefix == "dh"
dataBindClass == "data-bind-item"
eventClass == "dh-event"
eventActiveClass == "dh-event-active"

\* an EventSpec without a selector
NoSelector == ""

\* ---------------------------------------------------------------- state
VARIABLES
    parent,         \* DOM: node -> parentElement (Null for a detached or top node)
    position,       \* DOM: node -> its place among its parent's children, from 0
    classes,        \* DOM: node -> classList
    uiIndex,        \* DOM: node -> _uiIndex property (Undefined when never set)
    dataIndex,      \* DOM: node -> dataset.index as a digit string (NoAttr when absent)
    textContent,    \* DOM: node -> its own text
    listeners,      \* element -> its native listeners, in registration order
    EVENT_STORE,    \* element -> the stored binding record (<<>> when none)
    currentActive,  \* hover closure -> its currentActive node
    calls,          \* handler invocations made by the latest step, in order
    lastEvent,      \* the native event of the latest Dispatch step
    lastBind,       \* arguments of the latest bindEvents call (g: its number)
    registered,     \* the events list the listeners on the root were built from
    lastOp,         \* the latest engine call on the root
    muts,           \* class changes made so far
    ui,             \* the renderer component under the root: its options and fields
    lastCall,       \* the latest call on the component: its arguments and outcome
    pointer,        \* the element under the pointer (Null when it is off the page)
    utilCall        \* the latest call of a pure utility: its arguments and result

vars == <<parent, position, classes, uiIndex, dataIndex, textContent, listeners, EVENT_STORE,
          currentActive, calls, lastEvent, lastBind, registered, lastOp, muts,
          ui, lastCall, pointer, utilCall>>

\* ---------------------------------------------------------------- DOM
\* The page of the engine specification: an outer element holding the root,
\* the root holding a list element with two rendered items, the first item
\* holding a content element that holds a title element.
Outer == 6
Root == 0
ListEl == 1
Item0 == 2
Item1 == 3
Content0 == 4
Title0 == 5
Nodes == {Root, ListEl, Item0, Item1, Content0, Title0, Outer}
UnderRoot == {ListEl, Item0, Item1, Content0, Title0}
UserClasses == {"a", "b"}

\* the state an operation of the engine reads and writes
State == [parent |-> parent, position |-> position, classes |-> classes, uiIndex |-> uiIndex,
          dataIndex |-> dataIndex, textContent |-> textContent,
          listeners |-> listeners, store |-> EVENT_STORE,
          currentActive |-> currentActive]

\* node.contains(other): other is node or a descendant of node
RECURSIVE Contains(_, _, _)
Contains(s, node, other) ==
    IF other = Null THEN FALSE
    ELSE IF other = node THEN TRUE
    ELSE Contains(s, node, s.parent[other])

\* node.matches("." + c)
Matches(s, node, c) == c \in s.classes[node]

\* el.querySelectorAll("." + c): the descendants of el (not el) that match
QuerySelectorAll(s, el, c) ==
    {n \in DOMAIN s.parent : n # el /\ Contains(s, el, n) /\ Matches(s, n, c)}

\* node.closest("." + c): the nearest inclusive ancestor that matches, or null
RECURSIVE Closest(_, _, _)
Closest(s, node, c) ==
    IF node = Null THEN Null
    ELSE IF Matches(s, node, c) THEN node
    ELSE Closest(s, s.parent[node], c)

\* ---------------------------------------------------------------- strings
\* characters of an index string: the digits 0..9 and one non-digit
NonDigit == 10

\* index.toString() for index >= 0
RECURSIVE IndexToString(_)
IndexToString(n) ==
    IF n < 10 THEN <<n>> ELSE Append(IndexToString(n \div 10), n % 10)

\* parseInt(str, 10): the number its leading digits spell, NaN with none
RECURSIVE ParseDigits(_, _, _)
ParseDigits(str, i, acc) ==
    IF i > Len(str) \/ str[i] >= NonDigit THEN acc
    ELSE ParseDigits(str, i + 1, acc * 10 + str[i])
ParseInt(str) ==
    IF str = <<>> \/ str[1] >= NonDigit THEN NaN ELSE ParseDigits(str, 1, 0)

\* ---------------------------------------------------------------- helpers
\* first occurrences of the elements of a sequence, in order
RECURSIVE Uniq(_)
Uniq(seq) ==
    IF seq = <<>> THEN <<>>
    ELSE LET r == Uniq(SubSeq(seq, 1, Len(seq) - 1))
             x == seq[Len(seq)]
         IN  IF \E i \in 1..Len(r) : r[i] = x THEN r ELSE Append(r, x)

Min(S) == CHOOSE x \in S : \A y \in S : x <= y

Range(seq) == {seq[i] : i \in DOMAIN seq}

\* ---------------------------------------------------------------- engine
\* The closure identities one bindEvents / enableNearestHover call creates:
\* the call number g, the closure's role, and the event type it listens to.
ListenerId(g, kind, type) == <<g, kind, type>>

\* a resolveItemData that reads the record after the indexed one
ResolveItemDataOffByOne(s, node, viewData) ==
    LET itemEl == Closest(s, node, dataBindClass)
    IN  IF itemEl = Null THEN [index |-> NaN, data |-> DataNull]
        ELSE LET index == s.uiIndex[itemEl]
             IN  [index |-> index,
                  data |-> IF index + 2 \in DOMAIN viewData
                           THEN viewData[index + 2] ELSE DataUndefined]

\* a resolveItemData that reads the attribute before the property
ResolveItemDataAttrFirst(s, node, viewData) ==
    LET itemEl == Closest(s, node, dataBindClass)
    IN  IF itemEl = Null THEN [index |-> NaN, data |-> DataNull]
        ELSE LET index == IF s.dataIndex[itemEl] # NoAttr
                          THEN ParseInt(s.dataIndex[itemEl]) ELSE s.uiIndex[itemEl]
             IN  IF index \in {NaN, Undefined} THEN [index |-> NaN, data |-> DataNull]
                 ELSE [index |-> index,
                       data |-> IF index + 1 \in DOMAIN viewData
                                THEN viewData[index + 1] ELSE DataUndefined]

\* resolveItemData(node, viewData); viewData[k] is the (k+1)-th element here
ResolveItemData(s, node, viewData) ==
    LET itemEl == Closest(s, node, dataBindClass)
    IN  IF itemEl = Null THEN [index |-> NaN, data |-> DataNull]
        ELSE LET str == IF s.dataIndex[itemEl] = NoAttr THEN <<>> ELSE s.dataIndex[itemEl]
                 index == IF s.uiIndex[itemEl] # Undefined
                          THEN s.uiIndex[itemEl] ELSE ParseInt(str)
             IN  IF index = NaN THEN [index |-> NaN, data |-> DataNull]
                 ELSE [index |-> index,
                       data |-> IF index + 1 \in DOMAIN viewData
                                THEN viewData[index + 1] ELSE DataUndefined]

\* unbindEvents(el)
UnbindEvents(s, el) ==
    IF el = Null THEN s
    ELSE LET stored == s.store[el]
             gone == {<<stored[i].type, stored[i].listener>> : i \in DOMAIN stored}
             selectors == UNION {Range(stored[i].selectors) :
                                   i \in {i \in DOMAIN stored : stored[i].hasSelectors}}
             targets == UNION {QuerySelectorAll(s, el, c) : c \in selectors}
             keep(l) == <<l.type, l.id>> \notin gone
         IN  [s EXCEPT !.listeners[el] = SelectSeq(s.listeners[el], keep),
                       !.classes = [n \in DOMAIN s.classes |->
                                      IF n \in targets THEN s.classes[n] \ {eventClass}
                                      ELSE s.classes[n]]]

\* enableNearestHover(el); g names the closure pair this call creates
EnableNearestHover(s, el, g) ==
    IF el = Null THEN s
    ELSE LET hoverListener(kind, type) ==
                 [id |-> ListenerId(g, kind, type), type |-> type, kind |-> kind,
                  selectorMap |-> <<>>, elEvents |-> <<>>, viewData |-> <<>>, hover |-> g]
             entry(kind, type) ==
                 [type |-> type, listener |-> ListenerId(g, kind, type),
                  hasSelectors |-> FALSE, selectors |-> <<>>]
         IN  [s EXCEPT !.currentActive = (g :> Null) @@ s.currentActive,
                       !.listeners[el] = s.listeners[el]
                                           \o <<hoverListener("mouseOver", "mouseover"),
                                                hoverListener("mouseOut", "mouseout")>>,
                       !.store[el] = s.store[el]
                                       \o <<entry("mouseOver", "mouseover"),
                                            entry("mouseOut", "mouseout")>>]

\* bindEvents after its unbind: group the specs by type, mark the elements
\* the selectors match, register one listener per type, store the record,
\* enable the hover
Register(s1, el, events, viewData, g) ==
    LET types == Uniq([i \in 1..Len(events) |-> events[i].type])
        ofType(t) == LET is(ev) == ev.type = t IN SelectSeq(events, is)
        withSelector(t) == LET has(ev) == ev.selector # NoSelector
                           IN  SelectSeq(ofType(t), has)
        elEvents(t) == LET none(ev) == ev.selector = NoSelector
                       IN  SelectSeq(ofType(t), none)
        keys(t) == Uniq([i \in 1..Len(withSelector(t)) |-> withSelector(t)[i].selector])
        selectorMap(t) ==
            [k \in 1..Len(keys(t)) |->
               [selector |-> keys(t)[k],
                evList |-> LET same(ev) == ev.selector = keys(t)[k]
                           IN  SelectSeq(withSelector(t), same)]]
        targets == UNION {QuerySelectorAll(s1, el, events[i].selector) :
                            i \in {i \in 1..Len(events) : events[i].selector # NoSelector}}
        listener(t) ==
            [id |-> ListenerId(g, "delegate", t), type |-> t, kind |-> "delegate",
             selectorMap |-> selectorMap(t), elEvents |-> elEvents(t),
             viewData |-> viewData, hover |-> 0]
        s2 == [s1 EXCEPT
                 !.classes = [n \in DOMAIN s1.classes |->
                                IF n \in targets THEN s1.classes[n] \cup {eventClass}
                                ELSE s1.classes[n]],
                 !.listeners[el] = s1.listeners[el]
                                     \o [k \in 1..Len(types) |-> listener(types[k])],
                 !.store[el] = [k \in 1..Len(types) |->
                                  [type |-> types[k],
                                   listener |-> ListenerId(g, "delegate", types[k]),
                                   hasSelectors |-> TRUE,
                                   selectors |-> keys(types[k])]]]
    IN  EnableNearestHover(s2, el, g)

\* a bindEvents that forgets to unbind
BindEventsNoUnbind(s, el, events, viewData, g) ==
    IF el = Null \/ Len(events) = 0 THEN s
    ELSE Register(s, el, events, viewData, g)

\* bindEvents(el, events, viewData); g numbers the call
BindEvents(s, el, events, viewData, g) ==
    IF el = Null \/ Len(events) = 0 THEN s
    ELSE Register(UnbindEvents(s, el), el, events, viewData, g)

\* One handler invocation ev.handler(e, node, data, index, el)
Call(ev, node, data, index, el) ==
    [handler |-> ev.handler, type |-> ev.type, selector |-> ev.selector,
     node |-> node, data |-> data, index |-> index, root |-> el]

\* a listener that goes on to the farther ancestors after a match
RECURSIVE ListenerAllAncestors(_, _, _, _)
ListenerAllAncestors(s, l, el, node) ==
    IF node # Null /\ node # el
    THEN LET hits == {k \in 1..Len(l.selectorMap) : Matches(s, node, l.selectorMap[k].selector)}
             rest == ListenerAllAncestors(s, l, el, s.parent[node])
         IN  IF hits # {}
             THEN LET evList == l.selectorMap[Min(hits)].evList
                      r == ResolveItemData(s, node, l.viewData)
                  IN  [i \in 1..Len(evList) |-> Call(evList[i], node, r.data, r.index, el)]
                      \o SelectSeq(rest, LAMBDA c : c.selector # NoSelector)
             ELSE rest
    ELSE [i \in 1..Len(l.elEvents) |-> Call(l.elEvents[i], el, DataNull, NaN, el)]

\* a listener that lacks the return after a match and so reaches the
\* selector-less handlers too
RECURSIVE ListenerFallsThrough(_, _, _, _)
ListenerFallsThrough(s, l, el, node) ==
    IF node # Null /\ node # el
    THEN LET hits == {k \in 1..Len(l.selectorMap) : Matches(s, node, l.selectorMap[k].selector)}
         IN  IF hits # {}
             THEN LET evList == l.selectorMap[Min(hits)].evList
                      r == ResolveItemData(s, node, l.viewData)
                  IN  [i \in 1..Len(evList) |-> Call(evList[i], node, r.data, r.index, el)]
                      \o [i \in 1..Len(l.elEvents) |-> Call(l.elEvents[i], el, DataNull, NaN, el)]
             ELSE ListenerFallsThrough(s, l, el, s.parent[node])
    ELSE [i \in 1..Len(l.elEvents) |-> Call(l.elEvents[i], el, DataNull, NaN, el)]

\* a listener that takes the latest-registered selector a node matches
RECURSIVE ListenerLastSelector(_, _, _, _)
ListenerLastSelector(s, l, el, node) ==
    IF node # Null /\ node # el
    THEN LET hits == {k \in 1..Len(l.selectorMap) : Matches(s, node, l.selectorMap[k].selector)}
         IN  IF hits # {}
             THEN LET evList == l.selectorMap[CHOOSE k \in hits : \A j \in hits : j <= k].evList
                      r == ResolveItemData(s, node, l.viewData)
                  IN  [i \in 1..Len(evList) |-> Call(evList[i], node, r.data, r.index, el)]
             ELSE ListenerLastSelector(s, l, el, s.parent[node])
    ELSE [i \in 1..Len(l.elEvents) |-> Call(l.elEvents[i], el, DataNull, NaN, el)]

\* the delegated listener of bindEvents, from the walk's current node on:
\* the handler invocations it makes
RECURSIVE Listener(_, _, _, _)
Listener(s, l, el, node) ==
    IF node # Null /\ node # el
    THEN LET hits == {k \in 1..Len(l.selectorMap) : Matches(s, node, l.selectorMap[k].selector)}
         IN  IF hits # {}
             THEN LET evList == l.selectorMap[Min(hits)].evList
                      r == ResolveItemData(s, node, l.viewData)
                  IN  [i \in 1..Len(evList) |-> Call(evList[i], node, r.data, r.index, el)]
             ELSE Listener(s, l, el, s.parent[node])
    ELSE [i \in 1..Len(l.elEvents) |-> Call(l.elEvents[i], el, DataNull, NaN, el)]

\* a mouseOver that leaves the active class on the element it leaves
MouseOverKeepsOld(s, g, el, e) ==
    LET target == Closest(s, e.target, eventClass)
    IN  IF target = Null \/ ~Contains(s, el, target) THEN s
        ELSE [s EXCEPT !.currentActive[g] = target,
                       !.classes[target] = @ \cup {eventActiveClass}]

\* mouseOver of enableNearestHover closure g on el
MouseOver(s, g, el, e) ==
    LET target == Closest(s, e.target, eventClass)
        old == s.currentActive[g]
    IN  IF target = Null \/ ~Contains(s, el, target) THEN s
        ELSE [s EXCEPT !.currentActive[g] = target,
                       !.classes = [n \in DOMAIN s.classes |->
                           IF n = target THEN s.classes[n] \cup {eventActiveClass}
                           ELSE IF n = old THEN s.classes[n] \ {eventActiveClass}
                           ELSE s.classes[n]]]

\* mouseOut of enableNearestHover closure g
MouseOut(s, g, e) ==
    LET old == s.currentActive[g]
        clear == [s EXCEPT !.currentActive[g] = Null,
                           !.classes = [n \in DOMAIN s.classes |->
                               IF n = old THEN s.classes[n] \ {eventActiveClass}
                               ELSE s.classes[n]]]
    IN  IF old = Null THEN s
        ELSE IF e.relatedTarget = Null THEN clear
        ELSE IF Contains(s, old, e.relatedTarget) THEN s
        ELSE IF Closest(s, e.relatedTarget, eventClass) # Null THEN s
        ELSE clear

\* el's listeners of the event's type run in registration order, from the i-th
RECURSIVE RunListeners(_, _, _, _)
RunListeners(st, el, e, i) ==
    LET ls == st.s.listeners[el]
    IN  IF i > Len(ls) THEN st
        ELSE LET l == ls[i]
                 next ==
                     IF l.type # e.type THEN st
                     ELSE IF l.kind = "delegate"
                     THEN [st EXCEPT !.calls = st.calls \o Listener(st.s, l, el, e.target)]
                     ELSE IF l.kind = "mouseOver"
                     THEN [st EXCEPT !.s = MouseOver(st.s, l.hover, el, e)]
                     ELSE [st EXCEPT !.s = MouseOut(st.s, l.hover, e)]
             IN  RunListeners(next, el, e, i + 1)

\* a native event bubbles from its target to the top of the page
RECURSIVE Bubble(_, _, _)
Bubble(st, e, node) ==
    IF node = Null THEN st
    ELSE Bubble(RunListeners(st, node, e, 1), e, st.s.parent[node])

DispatchEvent(s, e) == Bubble([s |-> s, calls |-> <<>>], e, e.target)

\* ---------------------------------------------------------------- engine specification
\* no renderer component, and no call on one
NoComponent == [kind |-> "none"]
NoCall == [op |-> "none"]
\* no call of a pure utility
NoUtilCall == [fn |-> "none"]

NoEvent == [type |-> "", target |-> Null, relatedTarget |-> Null]

\* the event types of the engine specification: the page listens for clicks and
\* changes, and the pointer stays out of the root (no mouseover, no mouseout)
EventTypes == {"click", "change"}
NativeTypes == EventTypes
Selectors == {NoSelector} \cup UserClasses

\* The events lists a caller may pass to call g: every spec has its own
\* handler function, named by the call and its position in the list.
EventLists(g) ==
    UNION {{[i \in 1..n |-> [type |-> f[i][1], selector |-> f[i][2], handler |-> <<g, i>>]] :
              f \in [1..n -> EventTypes \X Selectors]} : n \in 0..MaxEvents}

\* the view data of call g: one fresh record per rendered item
ViewDataOf(g) == <<Rec(g, 0), Rec(g, 1)>>

InitParent ==
    (Outer :> Null) @@ (Root :> Outer) @@ (ListEl :> Root) @@ (Item0 :> ListEl)
    @@ (Item1 :> ListEl) @@ (Content0 :> Item0) @@ (Title0 :> Content0)

InitPosition ==
    (Outer :> Null) @@ (Root :> 0) @@ (ListEl :> 0) @@ (Item0 :> 0)
    @@ (Item1 :> 1) @@ (Content0 :> 0) @@ (Title0 :> 0)

\* the classes of the page before any bind: the two items carry the data-bind
\* class as the renderers set it; the outer element may be a data-bind item of
\* another component
InitClasses(outerIsItem) ==
    (Outer :> IF outerIsItem THEN {dataBindClass} ELSE {})
    @@ (Root :> {"a"}) @@ (ListEl :> {"b"})
    @@ (Item0 :> {dataBindClass, "a"}) @@ (Item1 :> {dataBindClass, "a"})
    @@ (Content0 :> {"a", "b"}) @@ (Title0 :> {})

InitUiIndex(outerIsItem) ==
    [n \in Nodes |-> IF n = Item0 THEN 0 ELSE IF n = Item1 THEN 1
                     ELSE IF n = Outer /\ outerIsItem THEN 1 ELSE Undefined]

InitDataIndex(outerIsItem) ==
    [n \in Nodes |-> IF n = Item0 THEN IndexToString(0)
                     ELSE IF n = Item1 THEN IndexToString(1)
                     ELSE IF n = Outer /\ outerIsItem THEN IndexToString(1) ELSE NoAttr]

\* a page on which nothing is bound and no event has been dispatched
Unbound(nodes) ==
    /\ listeners = [n \in nodes |-> <<>>]
    /\ EVENT_STORE = [n \in nodes |-> <<>>]
    /\ currentActive = <<>>
    /\ calls = <<>>
    /\ lastEvent = NoEvent

Init ==
    /\ classes = InitClasses(FALSE)
    /\ uiIndex = InitUiIndex(FALSE)
    /\ dataIndex = InitDataIndex(FALSE)
    /\ parent = InitParent
    /\ position = InitPosition
    /\ textContent = [n \in Nodes |-> ""]
    /\ Unbound(Nodes)
    /\ lastBind = [events |-> <<>>, viewData |-> <<>>, g |-> 0]
    /\ registered = <<>>
    /\ lastOp = "none"
    /\ muts = 0
    /\ ui = NoComponent
    /\ lastCall = NoCall
    /\ pointer = Null
    /\ utilCall = NoUtilCall

\* the engine's state after an operation
Commit(s) ==
    /\ parent' = s.parent
    /\ position' = s.position
    /\ classes' = s.classes
    /\ uiIndex' = s.uiIndex
    /\ dataIndex' = s.dataIndex
    /\ textContent' = s.textContent
    /\ listeners' = s.listeners
    /\ EVENT_STORE' = s.store
    /\ currentActive' = s.currentActive

\* a caller runs bindEvents(root, events, viewData)
Bind ==
    /\ lastBind.g < MaxBinds
    /\ LET g == lastBind.g + 1
       IN  \E events \in EventLists(g) :
             /\ Commit(BindEvents(State, Root, events, ViewDataOf(g), g))
             /\ lastBind' = [events |-> events, viewData |-> ViewDataOf(g), g |-> g]
             /\ registered' = IF events = <<>> THEN registered ELSE events
    /\ calls' = <<>>
    /\ lastEvent' = NoEvent
    /\ lastOp' = "bind"
    /\ UNCHANGED <<muts, ui, lastCall, pointer, utilCall>>

\* a caller runs unbindEvents(root)
Unbind ==
    /\ Commit(UnbindEvents(State, Root))
    /\ calls' = <<>>
    /\ lastEvent' = NoEvent
    /\ lastOp' = "unbind"
    /\ registered' = <<>>
    /\ UNCHANGED <<lastBind, muts, ui, lastCall, pointer, utilCall>>

\* the browser dispatches a native event on an element inside the root
Dispatch ==
    /\ \E type \in NativeTypes, target \in UnderRoot \cup {Root}, related \in {Null} :
         /\ Contains(State, Root, target)
         /\ LET e == [type |-> type, target |-> target, relatedTarget |-> related]
                st == DispatchEvent(State, e)
            IN  /\ Commit(st.s)
                /\ calls' = st.calls
                /\ lastEvent' = e
    /\ UNCHANGED <<lastBind, registered, lastOp, muts, ui, lastCall, pointer, utilCall>>

\* the page adds a class to, or removes it from, an element of the root's subtree
ToggleClass ==
    /\ muts < MaxMut
    /\ \E n \in UnderRoot, c \in UserClasses :
         classes' = [classes EXCEPT ![n] = IF c \in @ THEN @ \ {c} ELSE @ \cup {c}]
    /\ muts' = muts + 1
    /\ calls' = <<>>
    /\ lastEvent' = NoEvent
    /\ UNCHANGED <<parent, position, uiIndex, dataIndex, textContent, listeners, EVENT_STORE,
                   currentActive, lastBind, registered, lastOp, ui, lastCall, pointer, utilCall>>

Next == Bind \/ Unbind \/ Dispatch \/ ToggleClass

Spec == Init /\ [][Next]_vars

\* ---------------------------------------------------------------- what a native event should do
\* the nodes from the target up to, and without, the root
RECURSIVE PathTo(_, _)
PathTo(node, el) ==
    IF node = Null \/ node = el THEN <<>> ELSE <<node>> \o PathTo(parent[node], el)

\* the specs of an events list that a native event e on root el should invoke,
\* in order: those of the nearest node on the path that matches a selector of
\* e's type and of the earliest such selector it matches; with no such node,
\* the selector-less specs of e's type
Expected(events, e, el) ==
    LET path == PathTo(e.target, el)
        typed == {i \in DOMAIN events : events[i].type = e.type}
        hit(k) == {i \in typed : events[i].selector # NoSelector
                                 /\ events[i].selector \in classes[path[k]]}
        near == {k \in DOMAIN path : hit(k) # {}}
        chosen == IF near = {} THEN {i \in typed : events[i].selector = NoSelector}
                  ELSE {i \in typed : events[i].selector = events[Min(hit(Min(near)))].selector}
        keep(ev) == \E i \in chosen : events[i] = ev
    IN  SelectSeq(events, keep)

Handlers(cs) == [i \in DOMAIN cs |-> cs[i].handler]

DelegatedListeners(el, type) ==
    {i \in DOMAIN listeners[el] :
       listeners[el][i].kind = "delegate" /\ listeners[el][i].type = type}

\* ---------------------------------------------------------------- claims
\* C1: after a bindEvents call with a non-empty list, whatever was bound before,
\* the root carries exactly one delegated listener per event type of that call
\* and none of another type, all created by that call; a native event then
\* invokes exactly the matching handlers of that call, each once.
C1_OneListenerPerType ==
    (lastOp = "bind" /\ lastBind.events # <<>>) =>
        /\ \A t \in NativeTypes :
             Cardinality(DelegatedListeners(Root, t))
               = IF \E i \in DOMAIN lastBind.events : lastBind.events[i].type = t
                 THEN 1 ELSE 0
        /\ \A i \in DOMAIN listeners[Root] : listeners[Root][i].id[1] = lastBind.g
        /\ lastEvent # NoEvent =>
             Handlers(calls) = Handlers(Expected(lastBind.events, lastEvent, Root))

\* a second non-empty bind on the root, then an event that invokes a handler
C1_Witness ==
    /\ lastOp = "bind" /\ lastBind.events # <<>>
    /\ DOMAIN currentActive = {1, 2}
    /\ calls # <<>>

\* C2: after a bindEvents call, for every events list including the empty one,
\* no handler of an earlier bind is invoked and no handler receives a record
\* of an earlier view data.
C2_RebindUnbindsEarlier ==
    lastOp = "bind" =>
        \A i \in DOMAIN calls :
            /\ calls[i].handler[1] = lastBind.g
            /\ calls[i].data[1] = "rec" => calls[i].data[2] = lastBind.g

\* the selectors registered for the type of the latest native event
RegisteredSelectors ==
    {registered[p].selector : p \in {p \in DOMAIN registered :
        registered[p].type = lastEvent.type /\ registered[p].selector # NoSelector}}

\* the positions on the path of the latest event whose node matches a
\* registered selector of the event's type
MatchingOnPath ==
    LET path == PathTo(lastEvent.target, Root)
    IN  {k \in DOMAIN path : classes[path[k]] \cap RegisteredSelectors # {}}

\* C3: the selector handlers a native event invokes are all invoked for one
\* node, which lies on the path from the target below the root, matches the
\* handler's selector and has no matching node nearer to the target; the root
\* is never the matched node of a selector handler.
C3_NearestMatchOnly ==
    LET path == PathTo(lastEvent.target, Root)
    IN  \A i \in DOMAIN calls :
            calls[i].selector # NoSelector =>
                /\ calls[i].node # Root
                /\ calls[i].selector \in classes[calls[i].node]
                /\ MatchingOnPath # {}
                /\ calls[i].node = path[Min(MatchingOnPath)]

\* an event whose path holds several matching nodes, under a root that
\* matches too, has invoked a selector handler
C3_Witness ==
    /\ \E i \in DOMAIN calls : calls[i].selector # NoSelector
    /\ Cardinality(MatchingOnPath) >= 2
    /\ classes[Root] \cap RegisteredSelectors # {}

\* the rendered item that holds a node of the page, and the item's index
ItemOf(n) == IF Contains(State, Item0, n) THEN Item0
             ELSE IF Contains(State, Item1, n) THEN Item1 ELSE Null
ItemIndex(item) == IF item = Item0 THEN 0 ELSE 1

\* C4 as claimed: a click inside item k hands index k and viewData[k] to every
\* selector handler it invokes, whichever node on the path the selector matched.
C4_AnyMatchGetsItem ==
    \A i \in DOMAIN calls :
        (calls[i].selector # NoSelector /\ ItemOf(lastEvent.target) # Null) =>
            LET k == ItemIndex(ItemOf(lastEvent.target))
            IN  /\ calls[i].index = k
                /\ calls[i].data = ViewDataOf(calls[i].handler[1])[k + 1]

\* C4 amended: a click inside item k hands index k and viewData[k] to the
\* selector handlers it invokes when the node they are invoked for is item k
\* or lies inside it.
C4_MatchInsideItemGetsItem ==
    \A i \in DOMAIN calls :
        (/\ calls[i].selector # NoSelector
         /\ ItemOf(lastEvent.target) # Null
         /\ Contains(State, ItemOf(lastEvent.target), calls[i].node)) =>
            LET k == ItemIndex(ItemOf(lastEvent.target))
            IN  /\ calls[i].index = k
                /\ calls[i].data = ViewDataOf(calls[i].handler[1])[k + 1]

\* a click two levels below the boundary of the first item reached a handler
\* bound to the item itself
C4_Witness ==
    /\ lastEvent.target = Title0
    /\ \E i \in DOMAIN calls : calls[i].node = Item0 /\ calls[i].index = 0

\* C5: after unbindEvents no element under the root carries the event marker
\* class, the root has no listener left and a native event invokes no handler,
\* whatever the page changed under the root since the bind.
C5_UnbindRemovesAll ==
    lastOp = "unbind" =>
        /\ \A n \in UnderRoot : eventClass \notin classes[n]
        /\ listeners[Root] = <<>>
        /\ calls = <<>>

\* the selector-less specs registered for the type of the latest event
SelectorLess ==
    LET less(ev) == ev.type = lastEvent.type /\ ev.selector = NoSelector
    IN  SelectSeq(registered, less)

\* C6: a native event invokes the selector-less specs of its type exactly when
\* no node on its path below the root matches a selector registered for the
\* type: then all of them, in registration order, with (root, null, NaN, root),
\* and otherwise none of them.
C6_SelectorLessIffNoMatch ==
    lastEvent # NoEvent =>
        /\ MatchingOnPath = {} =>
             calls = [i \in DOMAIN SelectorLess |->
                        Call(SelectorLess[i], Root, DataNull, NaN, Root)]
        /\ MatchingOnPath # {} =>
             \A i \in DOMAIN calls : calls[i].selector # NoSelector

\* two selector-less handlers ran for an event below the root although the
\* root itself matches a class selector
C6_Witness ==
    /\ Len(calls) = 2
    /\ \A i \in DOMAIN calls : calls[i].selector = NoSelector
    /\ lastEvent.target # Root

\* C7: the handlers one native event invokes for a selector belong to one
\* (node, selector) pair, the selector being the earliest-registered one of the
\* event's type that the node matches; they are all the specs of that pair, in
\* the order of the events list.
C7_OnePairInListOrder ==
    (calls # <<>> /\ calls[1].selector # NoSelector) =>
        LET node == calls[1].node
            typed == {p \in DOMAIN registered : registered[p].type = lastEvent.type}
            matching == {p \in typed : registered[p].selector # NoSelector
                                      /\ registered[p].selector \in classes[node]}
        IN  /\ \A i \in DOMAIN calls :
                  calls[i].node = node /\ calls[i].selector = calls[1].selector
            /\ matching # {}
            /\ calls[1].selector = registered[Min(matching)].selector
            /\ \A i, j \in DOMAIN calls : i < j => calls[i].handler[2] < calls[j].handler[2]
            /\ {calls[i].handler[2] : i \in DOMAIN calls}
                 = {p \in typed : registered[p].selector = calls[1].selector}

\* a node that matches two registered selectors of the event's type got the
\* handlers of one of them
C7_Witness ==
    /\ calls # <<>> /\ calls[1].selector # NoSelector
    /\ Cardinality(classes[calls[1].node] \cap RegisteredSelectors) >= 2

\* ---------------------------------------------------------------- renderers: bounds
\* largest number of raw records handed to one render pass
MaxRecords == 2
\* number of calls on one component in one behaviour
MaxPasses == 3

\* ---------------------------------------------------------------- renderers: page
\* The elements a renderer creates, named by the statement that creates them; a
\* renderer empties the container before it runs the statement again, so the
\* earlier element of the same statement has left the page by then.
HeaderEl == 7
BodyEl == 8
FooterEl == 9
HeadingEl == 10
EmptyEl == 11
RowEl == 12
MainEl == 13
CounterEl == 14
UnitEl == 15
CustomHeaderEl == 16
CustomBodyEl == 17
CustomFooterEl == 18
ItemEl(i) == 20 + i
ContentEl(i) == 40 + i
TitleEl(i) == 60 + i

RenderNodes ==
    {Outer, Root, HeaderEl, BodyEl, FooterEl, HeadingEl, ListEl, EmptyEl,
     RowEl, MainEl, CounterEl, UnitEl, CustomHeaderEl, CustomBodyEl, CustomFooterEl}
    \cup UNION {{ItemEl(i), ContentEl(i), TitleEl(i)} : i \in 0..(MaxRecords - 1)}

\* the id of the root element of the page, and an id no element has
RootId == "root"
MissingId == "missing"

\* a lookup that finds the root under every id
GetElementByIdAny(s, id) == Root

\* document.getElementById(id)
GetElementById(s, id) == IF id = RootId THEN Root ELSE Null

\* document.createElement followed by the className assignment: a detached
\* element that carries the tokens of className and nothing else
CreateElement(s, n, className) ==
    [s EXCEPT !.parent[n] = Null, !.position[n] = Null,
              !.classes[n] = Range(className), !.uiIndex[n] = Undefined,
              !.dataIndex[n] = NoAttr, !.textContent[n] = ""]

\* p.appendChild(n)
AppendChild(s, p, n) ==
    [s EXCEPT !.parent[n] = p,
              !.position[n] = Cardinality({c \in DOMAIN s.parent : s.parent[c] = p})]

\* el.innerHTML = "": every node below el leaves the page
InnerHTMLEmpty(s, el) ==
    LET gone == {n \in DOMAIN s.parent : n # el /\ Contains(s, el, n)}
        reset(f, v) == [n \in DOMAIN f |-> IF n \in gone THEN v ELSE f[n]]
    IN  [s EXCEPT !.parent = reset(s.parent, Null),
                  !.position = reset(s.position, Null),
                  !.classes = reset(s.classes, {}),
                  !.uiIndex = reset(s.uiIndex, Undefined),
                  !.dataIndex = reset(s.dataIndex, NoAttr),
                  !.textContent = reset(s.textContent, "")]

\* utils.clear(el)
clear(s, el) == InnerHTMLEmpty(s, el)

\* ---------------------------------------------------------------- renderers: values
\* null and undefined where the code expects an object
JsNull == [null |-> TRUE]
JsUndefined == [undefined |-> TRUE]

\* the text an absent property turns into
UndefinedValue == "undefined"

\* a value that an if (...) of the code takes for false
Falsy(v) == v \in {"", UndefinedValue}

\* rec[key] of a JS object
Field(rec, key) == IF key \in DOMAIN rec THEN rec[key] ELSE UndefinedValue

\* a makeClassName that keeps the falsy tokens
makeClassNameUnfiltered(prefixed, raw) ==
    [i \in 1..Len(prefixed) |-> classPrefix \o "-" \o prefixed[i]] \o raw

\* utils.makeClassName(prefixed, raw) on two arrays: the class tokens of the
\* string it returns, in order
makeClassName(prefixed, raw) ==
    LET truthy(v) == ~Falsy(v)
        prefArr == SelectSeq(prefixed, truthy)
    IN  [i \in 1..Len(prefArr) |-> classPrefix \o "-" \o prefArr[i]]
        \o SelectSeq(raw, truthy)

\* utils.deepMerge(target, source) for options that hold no nested mapping:
\* every key of source overwrites the key of target
deepMerge(target, source) ==
    [k \in DOMAIN target \cup DOMAIN source |->
       IF k \in DOMAIN source THEN source[k] ELSE target[k]]

\* no schema argument
NoSchema == <<>>

\* utils.createMapper(schema) applied to a record; an entry of the schema is
\* a literal or a function, and the functions here read one field of the record
createMapper(schema, data) ==
    [key \in {schema[i].key : i \in DOMAIN schema} |->
       LET entry == schema[CHOOSE i \in DOMAIN schema : schema[i].key = key]
       IN  IF entry.fn THEN Field(data, entry.arg) ELSE entry.arg]

\* data.slice(0, size)
Slice(data, size) ==
    IF size >= 0
    THEN SubSeq(data, 1, IF size < Len(data) THEN size ELSE Len(data))
    ELSE SubSeq(data, 1, IF Len(data) + size > 0 THEN Len(data) + size ELSE 0)

\* the default options of the list and panel renderers ("no data" stands for
\* the Korean literal of the source)
DefaultSize == 5
DefaultEmptyText == "no data"
defaultOption ==
    [size |-> DefaultSize, events |-> <<>>, emptyText |-> DefaultEmptyText]

\* ---------------------------------------------------------------- renderers: calls
\* The state a call on a component runs in: the engine's state, the component,
\* the latest bindEvents call, the utils calls made so far, the exception
\* thrown (NoError while running) and the view data the pass worked out.
NoError == ""

\* no custom slots
NoCustom == <<>>

World ==
    [s |-> State, ui |-> ui, lastBind |-> lastBind, trace |-> <<>>,
     error |-> NoError, id |-> "", rawData |-> <<>>, schema |-> NoSchema,
     size |-> 0, viewData |-> <<>>, custom |-> NoCustom]

Throw(w, e) == [w EXCEPT !.error = e]

\* utils.bindEvents(el, events, viewData) as a renderer calls it
utils_bindEvents(w, el, events, viewData) ==
    LET g == w.lastBind.g + 1
    IN  [w EXCEPT !.s = BindEvents(w.s, el, events, viewData, g),
                  !.lastBind = [events |-> events, viewData |-> viewData, g |-> g],
                  !.trace = Append(@, "bindEvents")]

\* utils.unbindEvents(el) as a renderer calls it
utils_unbindEvents(w, el) ==
    [w EXCEPT !.s = UnbindEvents(w.s, el), !.trace = Append(@, "unbindEvents")]

\* utils.clear(el) as a renderer calls it
utils_clear(w, el) ==
    [w EXCEPT !.s = clear(w.s, el), !.trace = Append(@, "clear")]

\* the call has thrown: the statements that follow do not run
Thrown(w) == w.error # NoError

\* no icon engine, and the lucide engine
LucideEngine == [name |-> "lucide"]

\* What a custom slot function returns: an element it has created, a markup
\* string, or something else. The markup here is plain text.
SlotResults == {"node", "markup", "other"}
Markup == "markup"

\* a custom slot of a renderer: the function custom[slot], if there is one
HasSlot(custom, slot) == slot \in DOMAIN custom

\* utils.renderCustom(targetEl, fn, context); fn is given by what it returns,
\* node is the element it creates when it returns one
renderCustom(w, targetEl, fn, node) ==
    IF fn = "node"
    THEN [w EXCEPT !.s = AppendChild(CreateElement(w.s, node, <<>>), targetEl, node)]
    ELSE IF fn = "markup"
    THEN [w EXCEPT !.s = [InnerHTMLEmpty(w.s, targetEl)
                            EXCEPT !.textContent[targetEl] = Markup]]
    ELSE Throw(w, "TypeError")

\* the user's afterDraw / afterRender callback is invoked
InvokeCallback(w, name) == [w EXCEPT !.trace = Append(@, name)]

\* ---------------------------------------------------------------- renderers: list body
\* createContent / renderContent of item i: the content element with the title
\* (the records here hold no icon, subText or rightType)
createContent(s, name, i, data) ==
    LET s1 == CreateElement(s, ContentEl(i), makeClassName(<<name \o "-item-content">>, <<>>))
        s2 == CreateElement(s1, TitleEl(i), makeClassName(<<name \o "-item-title">>, <<>>))
        s3 == [s2 EXCEPT !.textContent[TitleEl(i)] = Field(data, "title")]
    IN  AppendChild(s3, ContentEl(i), TitleEl(i))

\* a forEach that numbers the items from one
RECURSIVE RenderItemsFromOne(_, _, _, _, _)
RenderItemsFromOne(s, name, ul, viewData, index) ==
    IF index >= Len(viewData) THEN s
    ELSE LET item == viewData[index + 1]
             li == ItemEl(index)
             s1 == CreateElement(s, li, makeClassName(<<name \o "-item">>, <<dataBindClass>>))
             s2 == [s1 EXCEPT !.dataIndex[li] = IndexToString(index + 1),
                              !.uiIndex[li] = index + 1]
             s3 == IF ~Falsy(Field(item, "title"))
                   THEN AppendChild(createContent(s2, name, index, item), li, ContentEl(index))
                   ELSE s2
         IN  RenderItemsFromOne(AppendChild(s3, ul, li), name, ul, viewData, index + 1)

\* viewData.forEach((item, index) => ...) of renderBody, from index on
RECURSIVE RenderItems(_, _, _, _, _)
RenderItems(s, name, ul, viewData, index) ==
    IF index >= Len(viewData) THEN s
    ELSE LET item == viewData[index + 1]
             li == ItemEl(index)
             s1 == CreateElement(s, li, makeClassName(<<name \o "-item">>, <<dataBindClass>>))
             s2 == [s1 EXCEPT !.dataIndex[li] = IndexToString(index),
                              !.uiIndex[li] = index]
             s3 == IF ~Falsy(Field(item, "title"))
                   THEN AppendChild(createContent(s2, name, index, item), li, ContentEl(index))
                   ELSE s2
         IN  RenderItems(AppendChild(s3, ul, li), name, ul, viewData, index + 1)

\* the ul of renderBody: the items of the view data, or the empty-state node
RenderList(s, name, viewData, emptyText) ==
    LET s1 == CreateElement(s, ListEl, makeClassName(<<name \o "-item-list">>, <<>>))
    IN  IF Len(viewData) # 0
        THEN RenderItems(s1, name, ListEl, viewData, 0)
        ELSE LET s2 == CreateElement(s1, EmptyEl, makeClassName(<<name \o "-item">>, <<"empty">>))
                 s3 == [s2 EXCEPT !.textContent[EmptyEl] = emptyText]
             IN  AppendChild(s3, ListEl, EmptyEl)

\* ---------------------------------------------------------------- PanelRender and the render of the first ListView
\* new PanelRender(options) / new ListView(options) of listView.js; name is
\* "panel" or "listView", the word their class names are built from
PanelRender(name, options) ==
    [kind |-> "render", name |-> name, options |-> deepMerge(defaultOption, options)]

\* renderHeader(panel, title)
PanelRender_renderHeader(s, name, panel, title) ==
    LET s1 == CreateElement(s, HeaderEl, makeClassName(<<name \o "-header">>, <<>>))
        s2 == [CreateElement(s1, HeadingEl, <<>>) EXCEPT !.textContent[HeadingEl] = title]
    IN  AppendChild(AppendChild(s2, HeaderEl, HeadingEl), panel, HeaderEl)

\* renderBody(panel, viewData, panelOptions)
PanelRender_renderBody(s, name, panel, viewData, panelOptions) ==
    LET s1 == CreateElement(s, BodyEl, makeClassName(<<name \o "-body">>, <<>>))
        s2 == RenderList(s1, name, viewData, panelOptions.emptyText)
    IN  AppendChild(AppendChild(s2, BodyEl, ListEl), panel, BodyEl)

\* render(panelId, title, data, schema, options, custom); a custom slot
\* function is called with the panel element and what it returns is dropped
PanelRender_render(w, panelId, title, data, schema, options, custom) ==
    LET panelEl == GetElementById(w.s, panelId)
        w0 == [w EXCEPT !.id = panelId, !.custom = custom]
    IN  IF panelEl = Null THEN Throw(w0, "Error")
        ELSE LET name == w.ui.name
                 s1 == InnerHTMLEmpty(w.s, panelEl)
                 panelOptions == deepMerge(w.ui.options, options)
                 s2 == IF HasSlot(custom, "header") THEN s1
                       ELSE PanelRender_renderHeader(s1, name, panelEl, title)
                 viewData == IF schema = NoSchema THEN data
                             ELSE LET part == Slice(data, panelOptions.size)
                                  IN  [i \in 1..Len(part) |-> createMapper(schema, part[i])]
                 s3 == IF HasSlot(custom, "body") THEN s2
                       ELSE PanelRender_renderBody(s2, name, panelEl, viewData, panelOptions)
                 w3 == [w0 EXCEPT !.s = s3, !.rawData = data, !.schema = schema,
                                 !.size = panelOptions.size, !.viewData = viewData]
                 w4 == utils_bindEvents(w3, panelEl, panelOptions.events, viewData)
             IN  IF "afterRender" \in DOMAIN panelOptions
                 THEN InvokeCallback(w4, "afterRender") ELSE w4

\* ---------------------------------------------------------------- ListView
\* new ListView({id, title, schema, options, custom, iconEngine}); pending
\* counts the afterDraw calls that wait for the icon engine
ListView(id, title, schema, userOptions, custom, iconEngine) ==
    [kind |-> "listView", id |-> id, title |-> title, schema |-> schema,
     custom |-> custom, options |-> deepMerge(defaultOption, userOptions),
     iconEngine |-> iconEngine, pending |-> 0,
     el |-> Null, headerEl |-> Null, bodyEl |-> Null, footerEl |-> Null,
     data |-> <<>>, viewData |-> <<>>]

\* renderLayout() of ListView and of MetricCard; name is "listView" or "metricCard"
renderLayout(w, name) ==
    LET s1 == CreateElement(w.s, HeaderEl, makeClassName(<<name \o "-header">>, <<>>))
        s2 == CreateElement(s1, BodyEl, makeClassName(<<name \o "-body">>, <<>>))
        s3 == CreateElement(s2, FooterEl, makeClassName(<<name \o "-footer">>, <<>>))
        s4 == AppendChild(AppendChild(AppendChild(s3, w.ui.el, HeaderEl),
                                      w.ui.el, BodyEl), w.ui.el, FooterEl)
    IN  [w EXCEPT !.s = s4, !.ui.headerEl = HeaderEl, !.ui.bodyEl = BodyEl,
                  !.ui.footerEl = FooterEl]

\* renderHeader(): reading innerHTML of a missing header element, or value of
\* a missing title, throws
ListView_renderHeader(w) ==
    IF w.ui.headerEl = Null THEN Throw(w, "TypeError")
    ELSE LET s1 == InnerHTMLEmpty(w.s, w.ui.headerEl)
         IN  IF HasSlot(w.ui.custom, "header")
             THEN renderCustom([w EXCEPT !.s = s1], w.ui.headerEl,
                               w.ui.custom.header, CustomHeaderEl)
             ELSE IF w.ui.title = JsUndefined THEN Throw([w EXCEPT !.s = s1], "TypeError")
             ELSE LET s2 == [CreateElement(s1, HeadingEl, <<>>)
                               EXCEPT !.textContent[HeadingEl] = Field(w.ui.title, "value")]
                  IN  [w EXCEPT !.s = AppendChild(s2, w.ui.headerEl, HeadingEl)]

\* renderBody()
ListView_renderBody(w) ==
    LET s1 == InnerHTMLEmpty(w.s, w.ui.bodyEl)
        s2 == RenderList(s1, "listView", w.ui.viewData, w.ui.options.emptyText)
    IN  IF HasSlot(w.ui.custom, "body")
        THEN renderCustom([w EXCEPT !.s = s1], w.ui.bodyEl, w.ui.custom.body, CustomBodyEl)
        ELSE [w EXCEPT !.s = AppendChild(s2, w.ui.bodyEl, ListEl)]

\* renderFooter()
ListView_renderFooter(w) ==
    LET w1 == [w EXCEPT !.s = InnerHTMLEmpty(w.s, w.ui.footerEl)]
    IN  IF HasSlot(w.ui.custom, "footer")
        THEN renderCustom(w1, w.ui.footerEl, w.ui.custom.footer, CustomFooterEl)
        ELSE w1

\* afterDraw() of ListView and MetricCard, up to its first await: with an icon
\* engine it waits for iconEngine.afterRender, without one it calls the
\* callback of the options at once
afterDraw(w) ==
    IF w.ui.iconEngine # JsNull THEN [w EXCEPT !.ui.pending = @ + 1]
    ELSE IF "afterDraw" \in DOMAIN w.ui.options THEN InvokeCallback(w, "afterDraw")
    ELSE w

\* afterDraw() from its await on: the icon engine is done, the callback is called
afterDrawResumed(w) ==
    LET w1 == [w EXCEPT !.ui.pending = @ - 1]
    IN  IF "afterDraw" \in DOMAIN w.ui.options THEN InvokeCallback(w1, "afterDraw")
        ELSE w1

\* draw()
ListView_draw(w) ==
    LET part == Slice(w.ui.data, w.ui.options.size)
        viewData == IF w.ui.schema = NoSchema THEN part
                    ELSE [i \in 1..Len(part) |-> createMapper(w.ui.schema, part[i])]
        w1 == [w EXCEPT !.ui.viewData = viewData, !.rawData = w.ui.data,
                        !.schema = w.ui.schema, !.size = w.ui.options.size,
                        !.viewData = viewData]
        bind(v) == utils_bindEvents(v, v.ui.el, v.ui.options.events, v.ui.viewData)
        w2 == ListView_renderHeader(w1)
        w3 == IF Thrown(w2) THEN w2 ELSE ListView_renderBody(w2)
        w4 == IF Thrown(w3) THEN w3 ELSE ListView_renderFooter(w3)
        w5 == IF Thrown(w4) THEN w4 ELSE afterDraw(w4)
    IN  IF Thrown(w5) THEN w5 ELSE bind(w5)

\* setData(data)
ListView_setData(w, data) == ListView_draw([w EXCEPT !.ui.data = data])

\* redraw()
ListView_redraw(w) == ListView_draw(w)

\* init(data)
ListView_init(w, data) ==
    LET el == GetElementById(w.s, w.ui.id)
        w1 == [w EXCEPT !.ui.el = el, !.id = w.ui.id]
    IN  IF el = Null THEN Throw(w1, "Error")
        ELSE ListView_setData(renderLayout(utils_clear(w1, el), "listView"), data)

\* a destroy() that leaves the listeners on the root
ListView_destroyNoUnbind(w) ==
    LET w1 == IF w.ui.el # Null THEN utils_clear(w, w.ui.el) ELSE w
    IN  [w1 EXCEPT !.ui.el = Null, !.ui.headerEl = Null, !.ui.bodyEl = Null,
                   !.ui.footerEl = Null, !.ui.data = <<>>, !.ui.viewData = <<>>]

\* destroy()
ListView_destroy(w) ==
    LET w1 == IF w.ui.el # Null
              THEN utils_clear(utils_unbindEvents(w, w.ui.el), w.ui.el)
              ELSE w
    IN  [w1 EXCEPT !.ui.el = Null, !.ui.headerEl = Null, !.ui.bodyEl = Null,
                   !.ui.footerEl = Null, !.ui.data = <<>>, !.ui.viewData = <<>>]

\* ---------------------------------------------------------------- MetricCard
\* the default options of MetricCard
metricDefaultOption == [emptyText |-> DefaultEmptyText, events |-> <<>>]

\* new MetricCard({id, title, options, custom, iconEngine}) without footer
MetricCard(id, title, userOptions, custom, iconEngine) ==
    [kind |-> "metricCard", id |-> id, title |-> title,
     custom |-> custom, options |-> deepMerge(metricDefaultOption, userOptions),
     iconEngine |-> iconEngine, pending |-> 0,
     el |-> Null, headerEl |-> Null, bodyEl |-> Null, footerEl |-> Null,
     data |-> JsUndefined]

\* renderHeader() for a title without colour and icon
MetricCard_renderHeader(w) ==
    IF w.ui.headerEl = Null THEN Throw(w, "TypeError")
    ELSE LET s1 == InnerHTMLEmpty(w.s, w.ui.headerEl)
             s2 == [CreateElement(s1, HeadingEl, <<>>)
                      EXCEPT !.textContent[HeadingEl] = Field(w.ui.title, "value")]
         IN  IF HasSlot(w.ui.custom, "header")
             THEN renderCustom([w EXCEPT !.s = s1], w.ui.headerEl,
                               w.ui.custom.header, CustomHeaderEl)
             ELSE [w EXCEPT !.s = AppendChild(s2, w.ui.headerEl, HeadingEl)]

\* createMainSection()
createMainSection(s, data) ==
    LET s1 == CreateElement(s, MainEl, makeClassName(<<>>, <<"counter-group">>))
        s2 == [CreateElement(s1, CounterEl, makeClassName(<<>>, <<"counter">>))
                 EXCEPT !.textContent[CounterEl] = Field(data, "value")]
        s3 == [CreateElement(s2, UnitEl, makeClassName(<<>>, <<"unit">>))
                 EXCEPT !.textContent[UnitEl] = Field(data, "unit")]
    IN  AppendChild(AppendChild(s3, MainEl, CounterEl), MainEl, UnitEl)

\* renderBody() for data without a delta
MetricCard_renderBody(w) ==
    LET s1 == InnerHTMLEmpty(w.s, w.ui.bodyEl)
        s2 == CreateElement(s1, RowEl, makeClassName(<<"metricCard-row">>, <<>>))
        s3 == IF w.ui.data \notin {JsNull, JsUndefined}
              THEN LET s4 == [s2 EXCEPT !.classes[RowEl] =
                                          @ \cup Range(makeClassName(<<>>, <<dataBindClass>>)),
                                        !.dataIndex[RowEl] = <<0>>,
                                        !.uiIndex[RowEl] = 0]
                   IN  AppendChild(createMainSection(s4, w.ui.data), RowEl, MainEl)
              ELSE [s2 EXCEPT !.classes[RowEl] = @ \cup {"empty"},
                              !.textContent[RowEl] = w.ui.options.emptyText]
    IN  IF HasSlot(w.ui.custom, "body")
        THEN renderCustom([w EXCEPT !.s = s1], w.ui.bodyEl, w.ui.custom.body, CustomBodyEl)
        ELSE [w EXCEPT !.s = AppendChild(s3, w.ui.bodyEl, RowEl)]

\* renderFooter() without a footer
MetricCard_renderFooter(w) ==
    LET w1 == [w EXCEPT !.s = InnerHTMLEmpty(w.s, w.ui.footerEl)]
    IN  IF HasSlot(w.ui.custom, "footer")
        THEN renderCustom(w1, w.ui.footerEl, w.ui.custom.footer, CustomFooterEl)
        ELSE w1

\* draw()
MetricCard_draw(w) ==
    LET w1 == MetricCard_renderHeader([w EXCEPT !.rawData = <<w.ui.data>>])
        bind(v) == utils_bindEvents([v EXCEPT !.viewData = <<v.ui.data>>],
                                    v.ui.el, v.ui.options.events, <<v.ui.data>>)
        w2 == IF Thrown(w1) THEN w1 ELSE MetricCard_renderBody(w1)
        w3 == IF Thrown(w2) THEN w2 ELSE MetricCard_renderFooter(w2)
        w4 == IF Thrown(w3) THEN w3 ELSE afterDraw(w3)
    IN  IF Thrown(w4) THEN w4 ELSE bind(w4)

\* setData(data = {})
MetricCard_setData(w, data) ==
    MetricCard_draw([w EXCEPT !.ui.data = IF data = JsUndefined THEN <<>> ELSE data])

\* redraw()
MetricCard_redraw(w) == MetricCard_draw(w)

\* init(data)
MetricCard_init(w, data) ==
    LET el == GetElementById(w.s, w.ui.id)
        w1 == [w EXCEPT !.ui.el = el, !.id = w.ui.id]
    IN  IF el = Null THEN Throw(w1, "Error")
        ELSE MetricCard_setData(renderLayout(utils_clear(w1, el), "metricCard"), data)

\* destroy()
MetricCard_destroy(w) ==
    LET w1 == IF w.ui.el # Null
              THEN utils_clear(utils_unbindEvents(w, w.ui.el), w.ui.el)
              ELSE w
    IN  [w1 EXCEPT !.ui.el = Null, !.ui.headerEl = Null, !.ui.bodyEl = Null,
                   !.ui.footerEl = Null, !.ui.data = <<>>]

\* ---------------------------------------------------------------- renderer specification
\* the handlers of a component: one on the rendered items, one on the root
ComponentEvents ==
    <<[type |-> "click", selector |-> dataBindClass, handler |-> <<0, 1>>],
      [type |-> "click", selector |-> NoSelector, handler |-> <<0, 2>>]>>

\* the options a user hands to a constructor: each key is given or left out
UserOptions ==
    {deepMerge(deepMerge(a, b), c) :
       a \in {<<>>, [size |-> 0], [size |-> 1]},
       b \in {<<>>, [events |-> ComponentEvents]},
       c \in {<<>>, [emptyText |-> "empty"]}}

\* the raw records of the page: the k-th has a name and, but for the second, a title
RawRecord(k) ==
    [name |-> "n" \o ToString(k), title |-> IF k = 2 THEN "" ELSE "t" \o ToString(k)]
RawData(n) == [k \in 1..n |-> RawRecord(k)]

\* a schema with a function entry, which reads the name, and a literal entry
TheSchema ==
    <<[key |-> "title", fn |-> TRUE, arg |-> "name"],
      [key |-> "tag", fn |-> FALSE, arg |-> "x"]>>
Schemas == {NoSchema, TheSchema}

\* the data of a metric card: left out, null, or a record
MetricData == {JsUndefined, JsNull, [value |-> "v", unit |-> "u"]}

TheTitle == [value |-> "Title"]

Components ==
    {PanelRender("panel", o) : o \in UserOptions}
    \cup {PanelRender("listView", o) : o \in {u \in UserOptions : "size" \notin DOMAIN u}}
    \cup {ListView(RootId, TheTitle, schema, o, NoCustom, JsNull) :
            schema \in Schemas, o \in UserOptions}
    \cup {ListView(RootId, JsUndefined, NoSchema, o, NoCustom, JsNull) :
            o \in {<<>>, [events |-> ComponentEvents]}}
    \cup {ListView(MissingId, TheTitle, NoSchema, o, NoCustom, JsNull) :
            o \in {<<>>, [events |-> ComponentEvents]}}
    \cup {MetricCard(MissingId, TheTitle, <<>>, NoCustom, JsNull)}
    \cup {MetricCard(RootId, TheTitle, deepMerge(b, c), NoCustom, JsNull) :
            b \in {<<>>, [events |-> ComponentEvents]},
            c \in {<<>>, [emptyText |-> "empty"]}}

\* the page before the first call, with one of the given components
PageWith(components) ==
    /\ parent = [n \in RenderNodes |-> IF n = Root THEN Outer ELSE Null]
    /\ position = [n \in RenderNodes |-> IF n = Root THEN 0 ELSE Null]
    /\ classes = [n \in RenderNodes |-> {}]
    /\ uiIndex = [n \in RenderNodes |-> Undefined]
    /\ dataIndex = [n \in RenderNodes |-> NoAttr]
    /\ textContent = [n \in RenderNodes |-> ""]
    /\ Unbound(RenderNodes)
    /\ lastBind = [events |-> <<>>, viewData |-> <<>>, g |-> 0]
    /\ registered = <<>>
    /\ lastOp = "none"
    /\ muts = 0
    /\ ui \in components
    /\ lastCall = [n |-> 0, op |-> "none", error |-> NoError, id |-> "", trace |-> <<>>,
                   rawData |-> <<>>, schema |-> NoSchema, size |-> 0,
                   viewData |-> <<>>, custom |-> NoCustom, after |-> "none"]
    /\ pointer = Null

InitRender == PageWith(Components) /\ utilCall = NoUtilCall

\* the page after a call on the component; after names the latest of init and destroy
Finish(w, op, after) ==
    /\ Commit(w.s)
    /\ ui' = w.ui
    /\ lastBind' = w.lastBind
    /\ lastCall' = [n |-> lastCall.n + 1, op |-> op, error |-> w.error, id |-> w.id,
                    trace |-> w.trace, rawData |-> w.rawData, schema |-> w.schema,
                    size |-> w.size, viewData |-> w.viewData, custom |-> w.custom,
                    after |-> after]
    /\ calls' = <<>>
    /\ lastEvent' = NoEvent
    /\ UNCHANGED <<registered, lastOp, muts, pointer, utilCall>>

\* the data a caller hands to init and setData
Arguments == IF ui.kind = "listView" THEN {RawData(n) : n \in 0..MaxRecords} ELSE MetricData

\* component.init(data)
CallInit ==
    /\ lastCall.n < MaxPasses
    /\ ui.kind \in {"listView", "metricCard"}
    /\ \E data \in Arguments :
         Finish(IF ui.kind = "listView" THEN ListView_init(World, data)
                ELSE MetricCard_init(World, data), "init", "init")

\* component.setData(data)
CallSetData ==
    /\ lastCall.n < MaxPasses
    /\ ui.kind \in {"listView", "metricCard"}
    /\ \E data \in Arguments :
         Finish(IF ui.kind = "listView" THEN ListView_setData(World, data)
                ELSE MetricCard_setData(World, data), "setData", lastCall.after)

\* component.redraw()
CallRedraw ==
    /\ lastCall.n < MaxPasses
    /\ ui.kind \in {"listView", "metricCard"}
    /\ Finish(IF ui.kind = "listView" THEN ListView_redraw(World)
              ELSE MetricCard_redraw(World), "redraw", lastCall.after)

\* component.destroy()
CallDestroy ==
    /\ lastCall.n < MaxPasses
    /\ ui.kind \in {"listView", "metricCard"}
    /\ Finish(IF ui.kind = "listView" THEN ListView_destroy(World)
              ELSE MetricCard_destroy(World), "destroy", "destroy")

\* renderer.render(id, title, data, schema, options)
CallRender ==
    /\ lastCall.n < MaxPasses
    /\ ui.kind = "render"
    /\ \E id \in {RootId, MissingId}, n \in 0..MaxRecords, schema \in Schemas,
          options \in {<<>>, [size |-> 1]} :
         \* nothing of a call under the missing id depends on the data
         /\ id = MissingId => (n = MaxRecords /\ schema = TheSchema)
         /\ Finish(PanelRender_render(World, id, "Title", RawData(n), schema, options,
                                      NoCustom),
                   "render", lastCall.after)

\* the nodes of the page inside the root, the root included
InRoot == {n \in DOMAIN parent : Contains(State, Root, n)}

\* the user clicks on an element inside the root
Click ==
    /\ \E target \in InRoot :
         LET e == [type |-> "click", target |-> target, relatedTarget |-> Null]
             st == DispatchEvent(State, e)
         IN  /\ Commit(st.s)
             /\ calls' = st.calls
             /\ lastEvent' = e
    /\ UNCHANGED <<lastBind, registered, lastOp, muts, ui, lastCall, pointer, utilCall>>

NextRender ==
    CallInit \/ CallSetData \/ CallRedraw \/ CallDestroy \/ CallRender \/ Click

SpecRender == InitRender /\ [][NextRender]_vars

\* ---------------------------------------------------------------- custom slots and callbacks
\* the custom slots a user gives: none, one slot, or all three
Slots == {"header", "body", "footer"}
Customs ==
    {NoCustom}
    \cup {[s \in {slot} |-> r] : slot \in Slots, r \in SlotResults}
    \cup {[s \in Slots |-> r] : r \in {"node", "markup"}}

\* options with events, with and without the callback after a pass
\* options with events, with and without the callback after a pass
WithCallback == [events |-> ComponentEvents, afterDraw |-> "callback", afterRender |-> "callback"]

CallbackOptions == {[events |-> ComponentEvents], WithCallback}

\* renderers with and without callback; lists and cards with each custom slot
\* and a callback, and with an icon engine
CustomComponents ==
    {PanelRender(name, o) : name \in {"panel", "listView"}, o \in CallbackOptions}
    \cup {ListView(RootId, TheTitle, NoSchema, WithCallback, c, JsNull) : c \in Customs}
    \cup {MetricCard(RootId, TheTitle, WithCallback, c, JsNull) :
            c \in {k \in Customs : DOMAIN k # Slots}}
    \cup {ListView(RootId, TheTitle, NoSchema, o, [header |-> "node"], LucideEngine) :
            o \in CallbackOptions}
    \cup {MetricCard(RootId, TheTitle, WithCallback, NoCustom, LucideEngine)}

InitCustom == PageWith(CustomComponents) /\ utilCall = NoUtilCall

\* renderer.render(id, title, data, schema, options, custom), with and without
\* custom slots
CallRenderCustom ==
    /\ lastCall.n < MaxPasses
    /\ ui.kind = "render"
    /\ \E n \in 0..MaxRecords, custom \in Customs :
         Finish(PanelRender_render(World, RootId, "Title", RawData(n), NoSchema, <<>>, custom),
                "render", lastCall.after)

\* the icon engine has done its work: an afterDraw() that waited goes on
ResumeAfterDraw ==
    /\ ui.kind \in {"listView", "metricCard"}
    /\ ui.pending > 0
    /\ Finish(afterDrawResumed(World), "afterDraw", lastCall.after)

\* the calls on a component and the continuation; no click is needed here
NextCustom ==
    CallInit \/ CallSetData \/ CallRedraw \/ CallDestroy \/ CallRenderCustom
    \/ ResumeAfterDraw

SpecCustom == InitCustom /\ [][NextCustom]_vars

\* ---------------------------------------------------------------- claims on the renderers
\* the calls that run a render pass
PassOps == {"init", "setData", "redraw", "render"}

\* C8: once destroy() has run on a ListView or MetricCard, and until a new
\* init, the root has no child node, carries no listener and no click on it
\* invokes a handler; a destroy that clears has unbound first; a later redraw
\* or setData makes no bindEvents call.
C8_DestroyLeavesNothing ==
    (ui.kind \in {"listView", "metricCard"} /\ lastCall.after = "destroy") =>
        /\ \A n \in DOMAIN parent : parent[n] # Root
        /\ listeners[Root] = <<>>
        /\ calls = <<>>
        /\ lastCall.op = "destroy" =>
             lastCall.trace \in {<<>>, <<"unbindEvents", "clear">>}
        /\ lastCall.op \in {"redraw", "setData"} =>
             "bindEvents" \notin Range(lastCall.trace)

\* a component that had bound its handlers was destroyed, then redrawn
\* without a new init, then clicked on
C8_Witness ==
    /\ ui.kind \in {"listView", "metricCard"}
    /\ lastCall.after = "destroy" /\ lastCall.op = "redraw"
    /\ lastBind.g >= 1 /\ lastBind.events # <<>>
    /\ lastEvent.target = Root

\* C9: in every render pass of the list and panel renderers the view data has
\* min(size, number of raw records) records, the i-th being the i-th raw record
\* without a schema and its schema mapping with one.
C9_ViewDataCapped ==
    (ui.kind \in {"render", "listView"} /\ lastCall.op \in PassOps) =>
        LET raw == lastCall.rawData
            n == IF lastCall.size < Len(raw) THEN lastCall.size ELSE Len(raw)
        IN  /\ Len(lastCall.viewData) = n
            /\ \A i \in 1..n :
                 lastCall.viewData[i] = IF lastCall.schema = NoSchema THEN raw[i]
                                        ELSE createMapper(lastCall.schema, raw[i])

\* the item nodes and the empty-state nodes inside the body element
BodyItems == {n \in DOMAIN parent : Contains(State, BodyEl, n) /\ dataBindClass \in classes[n]}
BodyEmpties == {n \in DOMAIN parent : Contains(State, BodyEl, n) /\ "empty" \in classes[n]}

\* C10: after a render pass of the list and panel renderers, a body for an
\* empty view data holds one empty-state node, which shows options.emptyText,
\* and no item; a body for n > 0 records holds n items and no empty-state
\* node, the i-th child of the list being item i with _uiIndex i, dataset.index
\* the digits of i, and the title of the i-th record.
C10_BodyMatchesViewData ==
    (/\ ui.kind \in {"render", "listView"}
     /\ lastCall.op \in PassOps
     /\ lastCall.error = NoError) =>
        LET viewData == lastCall.viewData
        IN  IF viewData = <<>>
            THEN /\ BodyItems = {}
                 /\ Cardinality(BodyEmpties) = 1
                 /\ \A n \in BodyEmpties : textContent[n] = ui.options.emptyText
            ELSE /\ BodyEmpties = {}
                 /\ Cardinality(BodyItems) = Len(viewData)
                 /\ \A i \in 0..(Len(viewData) - 1) :
                      \E n \in BodyItems :
                        /\ parent[n] = ListEl /\ position[n] = i
                        /\ uiIndex[n] = i
                        /\ dataIndex[n] = IndexToString(i)
                        /\ ~Falsy(Field(viewData[i + 1], "title")) =>
                             \E t \in DOMAIN parent :
                               /\ Contains(State, n, t)
                               /\ textContent[t] = viewData[i + 1].title

\* a pass has rendered two mapped records
C10_Witness ==
    /\ ui.kind \in {"render", "listView"}
    /\ lastCall.op \in PassOps /\ lastCall.error = NoError
    /\ Len(lastCall.viewData) = 2 /\ lastCall.schema # NoSchema

\* the page as the renderers and the engine see it
page == <<parent, position, classes, uiIndex, dataIndex, textContent, listeners,
          EVENT_STORE, currentActive>>

\* C11: a render or init call under an id that no element has raises the
\* error and does nothing else: the page, the listeners and the binding
\* records stay as they were and the call reaches no utils call and no callback.
C11_MissingElementRaisesFirst ==
    [][(/\ lastCall'.n # lastCall.n
        /\ lastCall'.op \in {"render", "init"}
        /\ lastCall'.id = MissingId) =>
           (/\ lastCall'.error = "Error"
            /\ lastCall'.trace = <<>>
            /\ UNCHANGED page
            /\ UNCHANGED lastBind)]_vars

\* a render under a missing id on a page that an earlier render has filled and bound
C11_Witness ==
    /\ lastCall.op = "render" /\ lastCall.id = MissingId /\ lastCall.error = "Error"
    /\ listeners[Root] # <<>>
    /\ \E n \in DOMAIN parent : parent[n] = Root

\* ---------------------------------------------------------------- claims on slots and callbacks
\* the custom slots of the latest call
CustomOf == IF ui.kind = "render" THEN lastCall.custom ELSE ui.custom

\* the container a custom slot fills and the element its function creates
Container(slot) ==
    IF ui.kind = "render" THEN Root
    ELSE IF slot = "header" THEN HeaderEl ELSE IF slot = "body" THEN BodyEl ELSE FooterEl
CustomNode(slot) ==
    IF slot = "header" THEN CustomHeaderEl
    ELSE IF slot = "body" THEN CustomBodyEl ELSE CustomFooterEl

\* C12: in every renderer (panel, list, card) and for every custom slot
\* (header, body, footer) whose function a render pass has called: a returned
\* element is a child of the slot's container, a returned markup string is the
\* content of the container, and any other value makes the pass raise a type
\* error.
C12_SlotResultIsRendered ==
    \A slot \in Slots :
        (/\ lastCall.op \in PassOps
         /\ HasSlot(CustomOf, slot)
         /\ lastCall.error = NoError \/ CustomOf[slot] = "other") =>
            CASE CustomOf[slot] = "node" -> parent[CustomNode(slot)] = Container(slot)
              [] CustomOf[slot] = "markup" -> textContent[Container(slot)] = Markup
              [] OTHER -> lastCall.error = "TypeError"

\* C13: in a render pass the afterRender / afterDraw callback is called only
\* after bindEvents has bound the events of the pass.
C13_CallbackAfterBind ==
    lastCall.op \in PassOps =>
        \A i \in 1..Len(lastCall.trace) :
            lastCall.trace[i] \in {"afterDraw", "afterRender"} =>
                \E j \in 1..(i - 1) : lastCall.trace[j] = "bindEvents"

\* ---------------------------------------------------------------- pure utilities: objects
\* JS values of the merge: numbers, null, and references to the arrays and
\* objects of a heap; the heap is the sequence of their property maps
Num(n) == [t |-> "number", v |-> n]
NullValue == [t |-> "null", v |-> 0]
Arr(a) == [t |-> "array", v |-> a]
Obj(a) == [t |-> "object", v |-> a]
\* the object of a literal {} that nothing else refers to
EmptyLiteral == [t |-> "literal", v |-> 0]

\* if (value)
Truthy(val) == val.t \in {"array", "object", "literal"} \/ (val.t = "number" /\ val.v # 0)

\* value && typeof value === "object" && !Array.isArray(value)
IsPlainObject(val) == Truthy(val) /\ val.t \in {"object", "literal"}

\* the own properties of a value: those of its object or array, none otherwise
Props(h, val) == IF val.t \in {"object", "array"} THEN h[val.v] ELSE <<>>

\* result[key] = val
Put(props, key, val) ==
    [k \in DOMAIN props \cup {key} |-> IF k = key THEN val ELSE props[k]]

\* the order in which for (key in source) visits the keys
KeyOrder == <<"0", "a", "b">>
KeysOf(props) == LET own(k) == k \in DOMAIN props IN SelectSeq(KeyOrder, own)

RECURSIVE deepMergeKeys(_, _, _, _, _)
RECURSIVE deepMergeHeap(_, _, _)

\* the loop of deepMerge over the keys left, result being the properties so far
deepMergeKeys(h, result, target, source, keys) ==
    IF keys = <<>> THEN [h |-> h, props |-> result]
    ELSE LET key == Head(keys)
             sv == Props(h, source)[key]
             tp == Props(h, target)
             tv == IF key \in DOMAIN tp /\ Truthy(tp[key]) THEN tp[key] ELSE EmptyLiteral
         IN  IF IsPlainObject(sv)
             THEN LET m == deepMergeHeap(h, tv, sv)
                  IN  deepMergeKeys(m.h, Put(result, key, m.v), target, source, Tail(keys))
             ELSE deepMergeKeys(h, Put(result, key, sv), target, source, Tail(keys))

\* a merge that copies every source value, mappings too
deepMergeShallow(h, target, source) ==
    LET tp == Props(h, target)
        sp == Props(h, source)
    IN  [h |-> Append(h, [k \in DOMAIN tp \cup DOMAIN sp |->
                            IF k \in DOMAIN sp THEN sp[k] ELSE tp[k]]),
         v |-> Obj(Len(h) + 1)]

\* a merge that writes into the target (const result = target)
deepMergeInPlace(h, target, source) ==
    LET out == deepMergeKeys(h, Props(h, target), target, source, KeysOf(Props(h, source)))
    IN  IF target.t = "object"
        THEN [h |-> [out.h EXCEPT ![target.v] = out.props], v |-> target]
        ELSE [h |-> Append(out.h, out.props), v |-> Obj(Len(out.h) + 1)]

\* utils.deepMerge(target, source) on the objects of heap h: the heap after
\* the call and the value returned; result = {...target} is a new object
deepMergeHeap(h, target, source) ==
    LET out == deepMergeKeys(h, Props(h, target), target, source, KeysOf(Props(h, source)))
    IN  [h |-> Append(out.h, out.props), v |-> Obj(Len(out.h) + 1)]

\* ---------------------------------------------------------------- pure utilities: class names
\* An argument of makeClassName is a token or an array of tokens; items holds
\* the token or the tokens. The empty string stands for every falsy token.
Token(x) == [isArray |-> FALSE, items |-> <<x>>]
Tokens(xs) == [isArray |-> TRUE, items |-> xs]

\* Array.isArray(x) ? x : [x]
ToArray(x) == IF x.isArray THEN x.items ELSE <<x.items[1]>>

\* array.join(sep)
RECURSIVE Join(_, _)
Join(seq, sep) ==
    IF seq = <<>> THEN ""
    ELSE IF Len(seq) = 1 THEN seq[1]
    ELSE seq[1] \o sep \o Join(Tail(seq), sep)

\* utils.makeClassName(prefixed, raw) with its arguments as the caller gives
\* them, and the string it returns
utils_makeClassName(prefixed, raw) ==
    Join(makeClassName(ToArray(prefixed), ToArray(raw)), " ")

\* utils.makeSelectorClassName(prefixed, raw)
makeSelectorClassName(prefixed, raw) ==
    LET prefArr == ToArray(prefixed)
        rawArr == SelectSeq(ToArray(raw), LAMBDA n : ~Falsy(n))
        prefSelectors == [i \in 1..Len(prefArr) |->
                            "." \o utils_makeClassName(Tokens(<<prefArr[i]>>), Tokens(<<>>))]
        rawSelectors == [i \in 1..Len(rawArr) |-> "." \o rawArr[i]]
    IN  Join(prefSelectors \o rawSelectors, ",")

\* ---------------------------------------------------------------- pure utilities: specification
\* the heap of a merge: object 1 is the target (the stored options of a
\* renderer), object 2 the source (the options of one render call), objects 3
\* and 4 are nested mappings and 5 is an array
TargetObj == 1
SourceObj == 2
NestedObj == 3
InnerObj == 4
TheArray == 5

MergeKeys == {"a", "b"}
ObjectsOver(vals) == UNION {[S -> vals] : S \in SUBSET MergeKeys}

Heaps ==
    {<<t, s, n, i, [k \in {"0"} |-> Num(1)]>> :
       t \in ObjectsOver({Num(1), NullValue, Arr(TheArray), Obj(NestedObj), Obj(InnerObj)}),
       s \in ObjectsOver({Num(1), NullValue, Arr(TheArray), Obj(NestedObj), Obj(InnerObj)}),
       n \in ObjectsOver({Num(1), Obj(InnerObj)}),
       i \in ObjectsOver({Num(2)})}

\* the tokens and the token arguments of a class-name call
MaxTokens == 2
TokenValues == {"", "a", "b"}
TokenArgs ==
    {Token(x) : x \in TokenValues}
    \cup UNION {{Tokens(xs) : xs \in [1..n -> TokenValues]} : n \in 0..MaxTokens}

\* the arguments a caller is about to pass
UtilInputs ==
    {[fn |-> "none", heap |-> h] : h \in Heaps}
    \cup {[fn |-> "none", prefixed |-> p, raw |-> r] : p \in TokenArgs, r \in TokenArgs}

InitPure == PageWith({PanelRender("panel", <<>>)}) /\ utilCall \in UtilInputs

notUtil == <<parent, position, classes, uiIndex, dataIndex, textContent, listeners,
             EVENT_STORE, currentActive, calls, lastEvent, lastBind, registered, lastOp,
             muts, ui, lastCall, pointer>>

\* deepMerge(target, source)
CallDeepMerge ==
    /\ utilCall.fn = "none" /\ "heap" \in DOMAIN utilCall
    /\ LET m == deepMergeHeap(utilCall.heap, Obj(TargetObj), Obj(SourceObj))
       IN  utilCall' = [fn |-> "deepMerge", heap |-> utilCall.heap,
                        target |-> Obj(TargetObj), source |-> Obj(SourceObj),
                        after |-> m.h, result |-> m.v]
    /\ UNCHANGED notUtil

\* panelOptions = deepMerge({...this.options}, options) of a render call
CallRenderOptions ==
    /\ utilCall.fn = "none" /\ "heap" \in DOMAIN utilCall
    /\ LET copy == Append(utilCall.heap, utilCall.heap[TargetObj])
           m == deepMergeHeap(copy, Obj(Len(copy)), Obj(SourceObj))
       IN  utilCall' = [fn |-> "render", heap |-> utilCall.heap,
                        target |-> Obj(TargetObj), source |-> Obj(SourceObj),
                        after |-> m.h, result |-> m.v]
    /\ UNCHANGED notUtil

\* makeClassName(prefixed, raw)
CallMakeClassName ==
    /\ utilCall.fn = "none" /\ "prefixed" \in DOMAIN utilCall
    /\ utilCall' = [fn |-> "makeClassName", prefixed |-> utilCall.prefixed,
                    raw |-> utilCall.raw,
                    result |-> utils_makeClassName(utilCall.prefixed, utilCall.raw)]
    /\ UNCHANGED notUtil

\* makeSelectorClassName(prefixed, raw)
CallMakeSelectorClassName ==
    /\ utilCall.fn = "none" /\ "prefixed" \in DOMAIN utilCall
    /\ utilCall' = [fn |-> "makeSelectorClassName", prefixed |-> utilCall.prefixed,
                    raw |-> utilCall.raw,
                    result |-> makeSelectorClassName(utilCall.prefixed, utilCall.raw)]
    /\ UNCHANGED notUtil

NextPure ==
    CallDeepMerge \/ CallRenderOptions \/ CallMakeClassName \/ CallMakeSelectorClassName

SpecPure == InitPure /\ [][NextPure]_vars

\* ---------------------------------------------------------------- claims on the pure utilities
\* a mapping, as opposed to a number, null or a sequence
IsMapping(val) == val.t = "object"

\* under every key where the source holds a mapping the target holds a mapping
\* or nothing, at every depth
RECURSIVE MergePrecondition(_, _, _)
MergePrecondition(h, target, source) ==
    LET tp == Props(h, target)
        sp == Props(h, source)
    IN  \A k \in DOMAIN sp :
            IsMapping(sp[k]) =>
                \/ k \notin DOMAIN tp
                \/ IsMapping(tp[k]) /\ MergePrecondition(h, tp[k], sp[k])

\* result is the merge of target and source that the specification describes
RECURSIVE IsMergeOf(_, _, _, _)
IsMergeOf(h, result, target, source) ==
    LET rp == Props(h, result)
        tp == Props(h, target)
        sp == Props(h, source)
    IN  /\ IsMapping(result)
        /\ DOMAIN rp = DOMAIN tp \cup DOMAIN sp
        /\ \A k \in DOMAIN rp :
              IF k \in DOMAIN sp
              THEN IF IsMapping(sp[k])
                   THEN IsMergeOf(h, rp[k],
                                  IF k \in DOMAIN tp THEN tp[k] ELSE EmptyLiteral, sp[k])
                   ELSE rp[k] = sp[k]
              ELSE rp[k] = tp[k]

\* C14: for a target and a source whose mappings meet (a mapping in the source
\* faces a mapping or nothing in the target), deepMerge returns a mapping with
\* exactly the keys of both, where a key whose source value is a mapping holds
\* the recursive merge of the target's mapping (empty when absent) with it, any
\* other source key holds the source value itself (a sequence replaces the
\* target's value), and a key only in the target keeps the target's value.
C14_DeepMergeResult ==
    (/\ utilCall.fn = "deepMerge"
     /\ MergePrecondition(utilCall.heap, utilCall.target, utilCall.source)) =>
        IsMergeOf(utilCall.after, utilCall.result, utilCall.target, utilCall.source)

\* a merge of a nested mapping into a nested mapping, both with keys of their
\* own, next to a sequence that replaces a number
C14_Witness ==
    /\ utilCall.fn = "deepMerge"
    /\ MergePrecondition(utilCall.heap, utilCall.target, utilCall.source)
    /\ utilCall.heap[TargetObj] = [a |-> Obj(NestedObj), b |-> Num(1)]
    /\ utilCall.heap[SourceObj] = [a |-> Obj(InnerObj), b |-> Arr(TheArray)]
    /\ utilCall.heap[NestedObj] = [a |-> Num(1), b |-> Num(1)]
    /\ utilCall.heap[InnerObj] = [a |-> Num(2)]
    /\ Props(utilCall.after, Props(utilCall.after, utilCall.result).a)
          = [a |-> Num(2), b |-> Num(1)]

\* C15: deepMerge leaves the target, the source and every object nested in
\* them as they were and returns an object that is neither of the two; the
\* same holds for the merge of a render call, whose target is the renderer's
\* stored options.
C15_DeepMergeMutatesNothing ==
    utilCall.fn \in {"deepMerge", "render"} =>
        /\ Len(utilCall.after) >= Len(utilCall.heap)
        /\ \A a \in 1..Len(utilCall.heap) : utilCall.after[a] = utilCall.heap[a]
        /\ IsMapping(utilCall.result)
        /\ utilCall.result.v \notin {utilCall.target.v, utilCall.source.v}

\* a render call whose options change a nested mapping of the stored options
C15_Witness ==
    /\ utilCall.fn = "render"
    /\ utilCall.heap[TargetObj] = [a |-> Obj(NestedObj)]
    /\ utilCall.heap[SourceObj] = [a |-> Obj(InnerObj)]
    /\ utilCall.heap[NestedObj] = [a |-> Num(1)]
    /\ utilCall.heap[InnerObj] = [a |-> Num(2)]
    /\ Props(utilCall.after, Props(utilCall.after, utilCall.result).a) = [a |-> Num(2)]

\* the classes of two token lists: each non-empty prefixed token with the
\* prefix and a hyphen in front, then each non-empty raw token
RECURSIVE ClassList(_, _)
ClassList(prefArr, rawArr) ==
    IF prefArr # <<>>
    THEN (IF Head(prefArr) = "" THEN <<>> ELSE <<classPrefix \o "-" \o Head(prefArr)>>)
         \o ClassList(Tail(prefArr), rawArr)
    ELSE IF rawArr # <<>>
    THEN (IF Head(rawArr) = "" THEN <<>> ELSE <<Head(rawArr)>>)
         \o ClassList(<<>>, Tail(rawArr))
    ELSE <<>>

\* the classes a call of makeClassName with the latest arguments has to yield
ExpectedClasses == ClassList(utilCall.prefixed.items, utilCall.raw.items)

\* C16: makeClassName returns the non-falsy prefixed tokens, each with the
\* prefix and a hyphen in front, followed by the non-falsy raw tokens, in
\* input order and joined by single spaces, whether an argument is one token
\* or a sequence of tokens.
C16_MakeClassName ==
    utilCall.fn = "makeClassName" =>
        utilCall.result = Join(ExpectedClasses, " ")

\* a call with a falsy token in each argument and two classes in the result
C16_Witness ==
    /\ utilCall.fn = "makeClassName"
    /\ utilCall.prefixed = Tokens(<<"", "a">>)
    /\ utilCall.raw = Tokens(<<"b", "">>)
    /\ utilCall.result = "dh-a b"

InitHover ==
    /\ \E outerIsMarked \in BOOLEAN :
         classes = [InitClasses(FALSE) EXCEPT
                      ![Outer] = IF outerIsMarked THEN {eventClass} ELSE {}]
    /\ uiIndex = InitUiIndex(FALSE)
    /\ dataIndex = InitDataIndex(FALSE)
    /\ parent = InitParent
    /\ position = InitPosition
    /\ textContent = [n \in Nodes |-> ""]
    /\ Unbound(Nodes)
    /\ lastBind = [events |-> <<>>, viewData |-> <<>>, g |-> 0]
    /\ registered = <<>>
    /\ lastOp = "none"
    /\ muts = 0
    /\ ui = NoComponent
    /\ lastCall = NoCall
    /\ pointer = Null
    /\ utilCall = NoUtilCall

\* the events lists of call g: one spec, a click or a hover type, on a class
\* or on the root
HoverEventLists(g) ==
    {<<[type |-> type, selector |-> selector, handler |-> <<g, 1>>]>> :
       type \in {"click", "mouseover", "mouseout"}, selector \in Selectors}

\* a caller runs bindEvents(root, events, viewData)
BindHover ==
    /\ lastBind.g < MaxBinds
    /\ LET g == lastBind.g + 1
       IN  \E events \in HoverEventLists(g) :
             /\ Commit(BindEvents(State, Root, events, ViewDataOf(g), g))
             /\ lastBind' = [events |-> events, viewData |-> ViewDataOf(g), g |-> g]
             /\ registered' = events
    /\ calls' = <<>>
    /\ lastEvent' = NoEvent
    /\ lastOp' = "bind"
    /\ UNCHANGED <<muts, ui, lastCall, pointer, utilCall>>

\* a caller runs enableNearestHover(root) itself
EnableHover ==
    /\ lastBind.g < MaxBinds
    /\ Commit(EnableNearestHover(State, Root, lastBind.g + 1))
    /\ lastBind' = [lastBind EXCEPT !.g = @ + 1]
    /\ calls' = <<>>
    /\ lastEvent' = NoEvent
    /\ lastOp' = "enableNearestHover"
    /\ UNCHANGED <<registered, muts, ui, lastCall, pointer, utilCall>>

\* The pointer moves from where it is to another element, or off the page
\* (Null): the browser dispatches mouseout on the element left, with the
\* destination as relatedTarget, then mouseover on the destination.
MovePointer ==
    /\ \E dest \in Nodes \cup {Null} :
         /\ dest # pointer
         /\ LET out == [type |-> "mouseout", target |-> pointer, relatedTarget |-> dest]
                over == [type |-> "mouseover", target |-> dest, relatedTarget |-> pointer]
                st1 == IF pointer = Null THEN [s |-> State, calls |-> <<>>]
                       ELSE DispatchEvent(State, out)
                st2 == IF dest = Null THEN st1
                       ELSE Bubble(st1, over, dest)
            IN  /\ Commit(st2.s)
                /\ calls' = st2.calls
                /\ lastEvent' = IF dest = Null THEN out ELSE over
                /\ pointer' = dest
    /\ lastOp' = "move"
    /\ UNCHANGED <<lastBind, registered, muts, ui, lastCall, utilCall>>

NextHover == BindHover \/ Unbind \/ EnableHover \/ MovePointer

SpecHover == InitHover /\ [][NextHover]_vars

\* ---------------------------------------------------------------- claims on the hover
\* the elements under the root that carry the active class
ActiveUnderRoot ==
    {n \in Nodes \ {Root} : Contains(State, Root, n) /\ eventActiveClass \in classes[n]}

\* C18: whatever mouseover and mouseout events, bindEvents and unbindEvents
\* calls have happened, at most one element under the root carries the active
\* class.
C18_AtMostOneActive == Cardinality(ActiveUnderRoot) <= 1

\* C19: when the pointer leaves the element that is active under it for a
\* destination that is not inside that element (an element, marked or not,
\* under or outside the root, or no element), the element no longer carries
\* the active class once the mouseout and the mouseover have been handled.
C19_LeavingDeactivates ==
    [][\A x \in ActiveUnderRoot :
          (/\ pointer' # pointer
           /\ Contains(State, x, pointer)
           /\ ~Contains(State, x, pointer')) => eventActiveClass \notin classes'[x]]_vars

\* C20: the root has at most one native listener of each event type, the two
\* hover listeners counted.
C20_OneListenerPerType ==
    \A i, j \in DOMAIN listeners[Root] :
        listeners[Root][i].type = listeners[Root][j].type => i = j

\* C23: no element under the root carries the active class before the first
\* bind, right after an unbindEvents(root), or right after a bindEvents(root),
\* which unbinds first.
C23_UnbindClearsHover ==
    lastOp \in {"none", "unbind", "bind"} => ActiveUnderRoot = {}

\* ---------------------------------------------------------------- nested roots specification
\* The page of the engine specification with two bound roots, the root and,
\* nested in it, its first item (the root of a component rendered into the
\* item). The outer element may be a data-bind item of yet another component.
\* registered holds, per root, the events bound and not unbound since.
InnerRoot == Item0
Roots == {Root, InnerRoot}
MaxChanges == 2

InitNested ==
    /\ \E outerIsItem \in BOOLEAN :
         /\ classes = InitClasses(outerIsItem)
         /\ uiIndex = InitUiIndex(outerIsItem)
         /\ dataIndex = InitDataIndex(outerIsItem)
    /\ parent = InitParent
    /\ position = InitPosition
    /\ textContent = [n \in Nodes |-> ""]
    /\ Unbound(Nodes)
    /\ lastBind = [events |-> <<>>, viewData |-> <<>>, g |-> 0]
    /\ registered = [el \in Roots |-> <<>>]
    /\ lastOp = "none"
    /\ muts = 0
    /\ ui = NoComponent
    /\ lastCall = [op |-> "none", el |-> Null]
    /\ pointer = Null
    /\ utilCall = NoUtilCall

\* the events lists of call g: one click spec on a class
NestedEventLists(g) ==
    {<<[type |-> "click", selector |-> selector, handler |-> <<g, 1>>]>> :
       selector \in UserClasses}

\* a caller runs bindEvents(el, events, viewData) on one of the roots
BindRoot ==
    /\ lastBind.g < MaxBinds
    /\ LET g == lastBind.g + 1
       IN  \E el \in Roots, events \in NestedEventLists(g) :
             /\ Commit(BindEvents(State, el, events, ViewDataOf(g), g))
             /\ lastBind' = [events |-> events, viewData |-> ViewDataOf(g), g |-> g]
             /\ registered' = [registered EXCEPT ![el] = events]
             /\ lastCall' = [op |-> "bind", el |-> el]
    /\ calls' = <<>>
    /\ lastEvent' = NoEvent
    /\ lastOp' = "bind"
    /\ UNCHANGED <<muts, ui, pointer, utilCall>>

\* a caller runs unbindEvents(el) on one of the roots
UnbindRoot ==
    /\ \E el \in Roots :
         /\ Commit(UnbindEvents(State, el))
         /\ registered' = [registered EXCEPT ![el] = <<>>]
         /\ lastCall' = [op |-> "unbind", el |-> el]
    /\ calls' = <<>>
    /\ lastEvent' = NoEvent
    /\ lastOp' = "unbind"
    /\ UNCHANGED <<lastBind, muts, ui, pointer, utilCall>>

\* the user clicks on an element inside the outer root
ClickNested ==
    /\ \E target \in UnderRoot \cup {Root} :
         LET e == [type |-> "click", target |-> target, relatedTarget |-> Null]
             st == DispatchEvent(State, e)
         IN  /\ Commit(st.s)
             /\ calls' = st.calls
             /\ lastEvent' = e
    /\ UNCHANGED <<lastBind, registered, lastOp, muts, ui, lastCall, pointer, utilCall>>

\* the page adds class a to the content element, or removes it
ChangeClass ==
    /\ muts < MaxChanges
    /\ classes' = [classes EXCEPT ![Content0] = IF "a" \in @ THEN @ \ {"a"} ELSE @ \cup {"a"}]
    /\ muts' = muts + 1
    /\ calls' = <<>>
    /\ lastEvent' = NoEvent
    /\ lastOp' = "change"
    /\ UNCHANGED <<parent, position, uiIndex, dataIndex, textContent, listeners, EVENT_STORE,
                   currentActive, lastBind, registered, ui, lastCall, pointer, utilCall>>

NextNested == BindRoot \/ UnbindRoot \/ ClickNested \/ ChangeClass

SpecNested == InitNested /\ [][NextNested]_vars

\* ---------------------------------------------------------------- claims on unbind and on nested roots
\* C21: unbindEvents(el) on a root that is not bound (never bound, or unbound
\* since its last bind) changes no listener and no class of any element.
C21_UnbindOfUnboundIsNoOp ==
    [][\A el \in Roots :
          (/\ lastOp' = "unbind"
           /\ lastCall'.el = el
           /\ registered[el] = <<>>) => (listeners' = listeners /\ classes' = classes)]_vars

\* the elements under root el that carry the marker class for a selector of
\* el's own binding
MarkedBy(el) ==
    {n \in Nodes \ {el} :
       /\ Contains(State, el, n)
       /\ eventClass \in classes[n]
       /\ \E i \in DOMAIN registered[el] : Matches(State, n, registered[el][i].selector)}

\* C27: a bindEvents or unbindEvents call on one root leaves the other root
\* untouched, nested or not: its listeners, its record, the marker class on
\* the elements its own binding marked, and its hover state.
C27_OtherRootUntouched ==
    [][\A el \in Roots, other \in Roots :
          (/\ other # el
           /\ lastCall'.el = el
           /\ lastOp' \in {"bind", "unbind"}) =>
              /\ listeners'[other] = listeners[other]
              /\ EVENT_STORE'[other] = EVENT_STORE[other]
              /\ \A n \in MarkedBy(other) : eventClass \in classes'[n]
              /\ \A g \in DOMAIN currentActive :
                    (\E i \in DOMAIN listeners[other] : listeners[other][i].hover = g) =>
                        currentActive'[g] = currentActive[g]]_vars

\* the nearest data-bind item around a node, when it is root el or inside it
ItemInside(el, node) ==
    LET itemEl == Closest(State, node, dataBindClass)
    IN  IF Contains(State, el, itemEl) THEN itemEl ELSE Null

\* C28: a handler called for a matched node that lies inside no data-bind
\* item of the bound root gets index NaN and data null, whatever encloses the
\* root.
C28_ItemFromInsideRoot ==
    \A i \in DOMAIN calls :
        (calls[i].selector # NoSelector /\ ItemInside(calls[i].root, calls[i].node) = Null) =>
            (calls[i].index = NaN /\ calls[i].data = DataNull)

\* ---------------------------------------------------------------- hover handlers specification
\* The page of the hover specification, with single events: a mouseover on
\* any element, or a mouseout, inside the root or outside it, with any related
\* element or none (the handlers read the target of a mouseover and the
\* related element of a mouseout only).
HoverEvents ==
    {[type |-> "mouseover", target |-> target, relatedTarget |-> Null] : target \in Nodes}
    \cup {[type |-> "mouseout", target |-> target, relatedTarget |-> related] :
             target \in {Content0, Outer}, related \in (Nodes \cup {Null}) \ {Content0}}

HoverEvent ==
    /\ \E e \in HoverEvents :
         /\ LET st == DispatchEvent(State, e)
            IN  /\ Commit(st.s)
                /\ calls' = st.calls
                /\ lastEvent' = e
    /\ lastOp' = "event"
    /\ UNCHANGED <<lastBind, registered, muts, ui, lastCall, pointer, utilCall>>

NextHandlers == BindHover \/ Unbind \/ HoverEvent

SpecHandlers == InitHover /\ [][NextHandlers]_vars

\* the closures of enableNearestHover whose handlers listen on the root
HoverClosures ==
    {listeners[Root][i].hover :
       i \in {j \in DOMAIN listeners[Root] : listeners[Root][j].kind = "mouseOver"}}

\* the nearest ancestor-or-self of a node that carries the marker class
NearestMarked(node) == Closest(State, node, eventClass)

\* closure g keeps its active node, and that node its classes
HoverUnchanged(g) ==
    /\ currentActive'[g] = currentActive[g]
    /\ currentActive[g] # Null => classes'[currentActive[g]] = classes[currentActive[g]]

\* closure g makes node m its active node
HoverActivated(g, m) ==
    /\ currentActive'[g] = m
    /\ eventActiveClass \in classes'[m]
    /\ (currentActive[g] # Null /\ currentActive[g] # m) =>
           eventActiveClass \notin classes'[currentActive[g]]

\* closure g drops its active node
HoverCleared(g) ==
    /\ currentActive'[g] = Null
    /\ currentActive[g] # Null => eventActiveClass \notin classes'[currentActive[g]]

\* mouseout: closure g clears when the pointer leaves for no element, or for
\* one neither inside the active node nor under a marked element
HoverOutTransition(g) ==
    LET related == lastEvent'.relatedTarget
    IN  IF /\ currentActive[g] # Null
           /\ \/ related = Null
              \/ ~Contains(State, currentActive[g], related) /\ NearestMarked(related) = Null
        THEN HoverCleared(g)
        ELSE HoverUnchanged(g)

\* the hover handlers touch no class but the active class
OnlyActiveClassChanges ==
    \A n \in Nodes : classes'[n] \ {eventActiveClass} = classes[n] \ {eventActiveClass}

UiIndexValues == {Undefined, NaN, 0, 1, 2}
DataIndexValues ==
    {NoAttr, <<>>, <<NonDigit>>, <<0>>, <<1>>, <<2>>, <<1, NonDigit>>, <<0, 1>>, <<1, 0>>}
ViewDatas == {<<>>, ViewDataOf(1)}

InitResolve ==
    /\ \E outerIsItem \in BOOLEAN, isItem \in BOOLEAN,
          index \in UiIndexValues, attr \in DataIndexValues :
         /\ classes = [InitClasses(outerIsItem) EXCEPT
                         ![Item0] = IF isItem THEN @ ELSE @ \ {dataBindClass}]
         /\ uiIndex = [InitUiIndex(outerIsItem) EXCEPT ![Item0] = index]
         /\ dataIndex = [InitDataIndex(outerIsItem) EXCEPT ![Item0] = attr]
    /\ parent = InitParent
    /\ position = InitPosition
    /\ textContent = [n \in Nodes |-> ""]
    /\ Unbound(Nodes)
    /\ lastBind = [events |-> <<>>, viewData |-> <<>>, g |-> 0]
    /\ registered = <<>>
    /\ lastOp = "none"
    /\ muts = 0
    /\ ui = NoComponent
    /\ lastCall = NoCall
    /\ pointer = Null
    /\ utilCall = NoUtilCall

\* resolveItemData(node, viewData)
CallResolveItemData ==
    /\ utilCall.fn = "none"
    /\ \E node \in Nodes, viewData \in ViewDatas :
         utilCall' = [fn |-> "resolveItemData", node |-> node, viewData |-> viewData,
                      result |-> ResolveItemData(State, node, viewData)]
    /\ UNCHANGED notUtil

NextResolve == CallResolveItemData

SpecResolve == InitResolve /\ [][NextResolve]_vars

\* the ancestors of a node and the node itself
RECURSIVE AncestorsOrSelf(_)
AncestorsOrSelf(node) ==
    IF node = Null THEN {} ELSE {node} \cup AncestorsOrSelf(parent[node])

\* the items around a node, and the innermost of them
ItemsAround(node) == {n \in AncestorsOrSelf(node) : dataBindClass \in classes[n]}
InnermostItem(node) ==
    CHOOSE n \in ItemsAround(node) : \A other \in ItemsAround(node) : n \in AncestorsOrSelf(other) => n = other

\* the integer the leading digits of a string spell
LeadingDigits(str) ==
    LET stops == {i \in 1..Len(str) : str[i] >= NonDigit}
    IN  IF stops = {} THEN Len(str) ELSE Min(stops) - 1
RECURSIVE DigitsValue(_, _)
DigitsValue(str, k) ==
    IF k = 0 THEN 0 ELSE DigitsValue(str, k - 1) * 10 + str[k]

\* the index the claim gives an item element: the property when present,
\* else the integer of the attribute, NaN when neither gives one
ExpectedIndex(itemEl) ==
    IF uiIndex[itemEl] # Undefined THEN uiIndex[itemEl]
    ELSE IF dataIndex[itemEl] = NoAttr \/ LeadingDigits(dataIndex[itemEl]) = 0 THEN NaN
    ELSE DigitsValue(dataIndex[itemEl], LeadingDigits(dataIndex[itemEl]))

C26_ResumeAfterDestroyIsNoOp ==
    (lastCall.op = "afterDraw" /\ lastCall.after = "destroy") =>
        (lastCall.error = NoError /\ lastCall.trace = <<>>)

\* ---------------------------------------------------------------- icon engine specification
\* A ListView or MetricCard with an afterDraw callback and an icon engine of
\* one of the two createLucideEngine(): the one that imports the library
\* (_loaded, _loadingPromise) and the one that appends a script element
\* (window.lucide). utilCall holds the engine: its loads, each pending,
\* fulfilled or rejected, and the afterDraw() calls waiting at their await.
IconEngines == {"import", "script"}

createLucideEngine(kind) ==
    [fn |-> "iconEngine", kind |-> kind, loaded |-> FALSE, loadingPromise |-> 0,
     loads |-> <<>>, afterRenders |-> 0, created |-> 0, createdUnloaded |-> FALSE,
     waiting |-> <<>>, delivered |-> <<>>, rejected |-> <<>>]

\* a new load of the library, and the promise to await
StartLoad(e) ==
    [e |-> [e EXCEPT !.loads = Append(@, "pending")], load |-> Len(e.loads) + 1]

\* ensureLoaded() up to its await: the load to wait for, 0 when there is none
ensureLoaded(e) ==
    IF e.loaded THEN [e |-> e, load |-> 0]
    ELSE IF e.loadingPromise # 0 THEN [e |-> e, load |-> e.loadingPromise]
    ELSE LET r == StartLoad(e)
         IN  [e |-> [r.e EXCEPT !.loadingPromise = r.load], load |-> r.load]

\* ensureLucide() up to its await
ensureLucide(e) ==
    IF e.loaded THEN [e |-> e, load |-> 0] ELSE StartLoad(e)

\* getContext(): the element and the data of the component (a MetricCard has
\* no viewData)
getContext(component) ==
    [el |-> component.el, rawData |-> component.data,
     viewData |-> IF "viewData" \in DOMAIN component THEN component.viewData
                  ELSE JsUndefined]

\* afterDraw() of draw n up to its await, iconEngine.afterRender(el) inside:
\* the continuation keeps what the component held at the draw
afterRender(e, n, component) ==
    LET r == IF component.el = Null THEN [e |-> e, load |-> 0]
             ELSE IF e.kind = "import" THEN ensureLoaded(e) ELSE ensureLucide(e)
    IN  [r.e EXCEPT !.afterRenders = @ + 1,
                    !.waiting = Append(@, [n |-> n, load |-> r.load, el |-> component.el,
                                           context |-> getContext(component)])]

\* the promise a continuation awaits is settled
Ready(e, c) == IF c.load = 0 THEN TRUE ELSE e.loads[c.load] # "pending"

\* afterDraw() from its await on, for continuation c: a rejected load rejects
\* afterDraw(); else createIcons runs on the element of the draw and the
\* callback gets getContext() as it is now
ResumeOne(st, c) ==
    IF c.load # 0 /\ st.e.loads[c.load] = "rejected"
    THEN [w |-> [st.w EXCEPT !.ui.pending = @ - 1],
          e |-> [st.e EXCEPT !.rejected = Append(@, c.n)]]
    ELSE LET e1 == IF c.el = Null THEN st.e
                   ELSE [st.e EXCEPT !.created = @ + 1,
                                     !.createdUnloaded = @ \/ ~st.e.loaded]
             context == [n |-> c.n, context |-> getContext(st.w.ui), drawn |-> c.context]
         IN  [w |-> afterDrawResumed(st.w),
              e |-> IF "afterDraw" \in DOMAIN st.w.ui.options
                    THEN [e1 EXCEPT !.delivered = Append(@, context)] ELSE e1]

\* the microtasks run: every continuation whose promise is settled goes on, in
\* the order of the awaits
RECURSIVE ResumeReady(_)
ResumeReady(st) ==
    LET ready == {i \in DOMAIN st.e.waiting : Ready(st.e, st.e.waiting[i])}
    IN  IF ready = {} THEN st
        ELSE LET i == Min(ready)
                 rest == [j \in 1..(Len(st.e.waiting) - 1) |->
                            IF j < i THEN st.e.waiting[j] ELSE st.e.waiting[j + 1]]
             IN  ResumeReady(ResumeOne([st EXCEPT !.e.waiting = rest], st.e.waiting[i]))

IconComponents ==
    {ListView(RootId, TheTitle, NoSchema, WithCallback, NoCustom, LucideEngine),
     MetricCard(RootId, TheTitle, WithCallback, NoCustom, LucideEngine)}

InitIcons ==
    /\ PageWith(IconComponents)
    /\ \E kind \in IconEngines : utilCall = createLucideEngine(kind)

\* a step of the icon engine specification is done
FinishIcons(w, n, op, after, e) ==
    /\ Commit(w.s)
    /\ ui' = w.ui
    /\ lastBind' = w.lastBind
    /\ lastCall' = [n |-> n, op |-> op, error |-> w.error, id |-> w.id,
                    trace |-> w.trace, rawData |-> w.rawData, schema |-> w.schema,
                    size |-> w.size, viewData |-> w.viewData, custom |-> w.custom,
                    after |-> after]
    /\ utilCall' = e
    /\ calls' = <<>>
    /\ lastEvent' = NoEvent
    /\ UNCHANGED <<registered, lastOp, muts, pointer>>

\* call n + 1 on the component has run to w: an afterDraw() in it has called
\* the engine and waits
Called(w, op, after) ==
    LET n == lastCall.n + 1
    IN  FinishIcons(w, n, op, after,
                    IF w.ui.pending > ui.pending THEN afterRender(utilCall, n, w.ui)
                    ELSE utilCall)

\* component.init(data)
IconInit ==
    /\ lastCall.n < MaxPasses
    /\ \E data \in Arguments :
         Called(IF ui.kind = "listView" THEN ListView_init(World, data)
                ELSE MetricCard_init(World, data), "init", "init")

\* component.setData(data)
IconSetData ==
    /\ lastCall.n < MaxPasses
    /\ \E data \in Arguments :
         Called(IF ui.kind = "listView" THEN ListView_setData(World, data)
                ELSE MetricCard_setData(World, data), "setData", lastCall.after)

\* component.redraw()
IconRedraw ==
    /\ lastCall.n < MaxPasses
    /\ Called(IF ui.kind = "listView" THEN ListView_redraw(World)
              ELSE MetricCard_redraw(World), "redraw", lastCall.after)

\* component.destroy()
IconDestroy ==
    /\ lastCall.n < MaxPasses
    /\ Called(IF ui.kind = "listView" THEN ListView_destroy(World)
              ELSE MetricCard_destroy(World), "destroy", "destroy")

\* the task that made the calls ends: the microtasks run
DrainMicrotasks ==
    /\ \E i \in DOMAIN utilCall.waiting : Ready(utilCall, utilCall.waiting[i])
    /\ LET st == ResumeReady([w |-> World, e |-> utilCall])
       IN  FinishIcons(st.w, lastCall.n, "afterDraw", lastCall.after, st.e)

\* a load settles, in a task of its own: the import is fulfilled (its then
\* sets _loaded) or rejected, the script fires onload (it has set
\* window.lucide) or onerror; the continuations that wait for it go on
SettleLoad ==
    /\ \A i \in DOMAIN utilCall.waiting : ~Ready(utilCall, utilCall.waiting[i])
    /\ \E k \in DOMAIN utilCall.loads, outcome \in {"fulfilled", "rejected"} :
         /\ utilCall.loads[k] = "pending"
         /\ LET e == [utilCall EXCEPT !.loads[k] = outcome,
                                      !.loaded = @ \/ outcome = "fulfilled"]
                st == ResumeReady([w |-> World, e |-> e])
            IN  FinishIcons(st.w, lastCall.n, "afterDraw", lastCall.after, st.e)

NextIcons ==
    IconInit \/ IconSetData \/ IconRedraw \/ IconDestroy \/ DrainMicrotasks \/ SettleLoad

SpecIcons == InitIcons /\ [][NextIcons]_vars

\* every task ends and every load that was started settles
SpecIconsFair == SpecIcons /\ WF_vars(DrainMicrotasks) /\ WF_vars(SettleLoad)

\* C25: whatever afterRender calls have been made on an icon engine, the
\* load of the icon library was started at most once, and not before the
\* first afterRender call, and createIcons ran only with the library loaded.
C25_LoadStartedOnce ==
    /\ Len(utilCall.loads) <= 1
    /\ utilCall.afterRenders = 0 => utilCall.loads = <<>>
    /\ ~utilCall.createdUnloaded

\* C29: as long as the component is not destroyed, each afterDraw callback
\* gets the element, rawData and viewData the component held at the draw that
\* triggered it, and the callbacks run in the order of their draws.
C29_CallbackGetsItsDraw ==
    lastCall.after # "destroy" =>
        /\ \A i \in DOMAIN utilCall.delivered :
              utilCall.delivered[i].context = utilCall.delivered[i].drawn
        /\ \A i, j \in DOMAIN utilCall.delivered :
              i < j => utilCall.delivered[i].n < utilCall.delivered[j].n

\* the afterDraw() of call k waits at its await
Waits(k) == \E i \in DOMAIN utilCall.waiting : utilCall.waiting[i].n = k

\* the callback of call k has run exactly once
DeliveredOnce(k) ==
    Cardinality({i \in DOMAIN utilCall.delivered : utilCall.delivered[i].n = k}) = 1

\* C30: when every load that was started settles, fulfilled or rejected,
\* every draw whose afterDraw() waits for the icon engine has its afterDraw
\* callback called exactly once in the end.
C30_CallbackEventuallyOnce ==
    \A k \in 1..MaxPasses : Waits(k) ~> DeliveredOnce(k)
====
